---- MODULE Spec2Model ----
(***************************************************************************)
(* Verification model of the coeus core (Ohkthx/coeus).                    *)
(*                                                                         *)
(* Part 1 - the scheduler: State.initWrapper / initState, the cron         *)
(* triggers of State.updateDataWrapper, the stages of updateData, the      *)
(* readers of the ranking map, the candle saves and the shutdown paths     *)
(* (SIGINT handler, killAll).  Node runs every callback to its next await  *)
(* without interruption, so each action below is one such run, with the    *)
(* promise reactions (then / catch / finally) that follow it at once.      *)
(*                                                                         *)
(* Part 2 - the candle merge: combineCandles and UpdateData.totalCandles   *)
(* as operators on lists of open times, applied to drawn inputs.           *)
(*                                                                         *)
(* Part 3 - the bucket aggregator: createBucketData (createCandleBuckets   *)
(* and candleProcessor), applied to drawn candle lists and options.        *)
(*                                                                         *)
(* Part 4 - the cross analysis: crossAnalysis (checkMA, cross and          *)
(* convertCross), applied to drawn pairs of rankings.                      *)
(*                                                                         *)
(* Part 5 - the ranking filter: sortRankings, applied to drawn rankings    *)
(* and filters, and applied once more to its own result.                   *)
(***************************************************************************)
EXTENDS Integers, Sequences, FiniteSets, TLC

\* ------------------------------------------------------------------ bounds
\* Number of pairs returned by Products.filter(PRODUCT_OPTS).
NumPairs == 2
\* Number of cron ticks that are followed.
MaxTriggers == 2
\* Cap on the un-awaited candle appends that are followed at once.
MaxPending == 1
\* Largest open time of a drawn candle (open times are 1..MaxTs).
MaxTs == 4
\* Largest length of a drawn candle list.
MaxLen == 3
\* Largest drawn DataOpts.totalCandleCount.
MaxCap == 3
\* Length of one candle in time units (a one-hour candle counted in half
\* hours): DataOpts.candleSizeMin.
CandleSize == 2
\* Number of candle slots before the newest one from which the list given to
\* the bucket aggregator is drawn: slot s opens at time s * CandleSize.
MaxSlots == 4
\* Largest drawn price of a candle.
MaxPrice == 1
\* Largest drawn opts.bucket.total.
MaxBuckets == 2
\* Largest drawn opts.bucket.candlesPer.
MaxCandlesPer == 2
\* Largest drawn moving-average value.
MaxMa == 2
\* Largest number of rankings given to sortRankings.
MaxRecords == 2
\* Largest drawn ratio.rating.
MaxRating == 2
\* Largest number of candles CandleDb holds for a pair before a cycle.
MaxStored == 2
\* Largest count of buying or of selling orders the provider reports.
MaxOrders == 2
\* Largest candle size in minutes of a drawn configuration.
MaxCandleMin == 7
\* Largest number of candles between two updates of a drawn configuration.
MaxFrequency == 2
\* Number of candle slots of the lists with gaps given to the bucket
\* aggregator: enough for three buckets of two candles.
MaxGapSlots == 5
\* Largest opts.bucket.total drawn with those lists.
MaxGapBuckets == 3
\* Largest length of a drawn list of bucket closes.
MaxCloses == 5
\* Largest drawn bucket close (closes are 1..MaxClose).
MaxClose == 2
\* Largest window given to sma and to ema on their own.
MaxRange == 3
\* Largest number of decimals of a product's quote increment.
MaxDecimals == 1
\* The windows of the moving averages of a ranking, counted in buckets.  The
\* code has 12, 26, 50 and 200; the model keeps their order and scales them
\* down so that a drawn list of closes reaches every one of them.
Twelve == 2
TwentySix == 3
Fifty == 4
TwoHundred == 5
\* The window of the MACD signal (9 in the code), scaled down.
SignalRange == 2
\* The default timeLength of calcRSI (14 in the code), scaled down.
RsiLength == 2
\* Largest number of products in the reference data when initState runs
\* (the products 1..n); the other products are added by later updates.
MaxStartup == 1

\* ------------------------------------------------------- program constants
\* The SIGINT count from which the handler calls process.exit() directly.
ForceExitAt == 5
\* The SIGINT count that runs killAll; the counts in between are ignored.
FirstSigint == 1
\* The RSI above which a product counts as overbought.
RSI_OVERBOUGHT == 70
\* The RSI below which a product counts as oversold.
RSI_OVERSOLD == 30

Pairs == 1..NumPairs
Triggers == 1..MaxTriggers
Killers == {"sigint", "catch"}

VARIABLES
  mainPc,         \* position of the start-up routine of the entry point
  configOk,       \* whether the State constructor accepts the configuration
  initI,          \* loop index of initState over the products
  initialized,    \* State.initialized
  updating,       \* State.updating
  isEnabled,      \* State.isEnabled
  cronRegistered, \* schedule(cronSchedule, State.updateDataWrapper) was called
  fired,          \* number of cron ticks that have fired
  trig,           \* position of each updateDataWrapper invocation
  idx,            \* loop index of updateData over the products, per invocation
  arrivedBusy,    \* State.isUpdating when the tick fired, kept while it waits
  rankings,       \* State.currentRankings: pair -> writer of its record, 0 = none
  readState,      \* what the last reader saw of the cycle in flight (history)
  statuses,       \* CandleDb.statuses
  mongoPending,   \* un-awaited saveCandles() appends still in flight
  candleLoads,    \* per pair: how often its candles were loaded from CandleDb
  sigintFired,    \* the SIGINT counter of the entry point
  kill,           \* position of each killAll invocation
  httpActive,     \* HTTPServer.isActive
  exited,         \* "no", or how the process exited
  oldCandles,     \* part 2: UpdateData.oldCandles, as a list of open times
  newCandles,     \* part 2: UpdateData.newCandles, as a list of open times
  oldestTs,       \* part 2: opts.start, the oldest open time that is kept
  maxCandles,     \* part 2: opts.totalCandleCount
  candles,        \* part 2: the list returned by UpdateData.totalCandles
  candlePc,       \* part 2: "off", "pulled" or "merged"
  bucketCandles,  \* part 3: the candles given to createBucketData
  optsEnd,        \* part 3: opts.end
  candlesPer,     \* part 3: opts.bucket.candlesPer
  totalBuckets,   \* part 3: opts.bucket.total
  bucketData,     \* part 3: the BucketData[] returned by createBucketData
  bucketErrs,     \* part 3: the number of coreErr calls of createBucketData
  bucketPc,       \* part 3: "off", "given" or "built"
  lastR,          \* part 4: ProductData.lastRanking (its sma and ema)
  currentR,       \* part 4: ProductData.currentRanking (its sma and ema)
  crossMsgs,      \* part 4: the messages of the SMA and the EMA cross analysis
  crossPc,        \* part 4: "off", "ranked" or "analysed"
  unsorted,       \* part 5: the rankings given to sortRankings
  sortFilter,     \* part 5: State.sortFilter
  sorted,         \* part 5: the list sortRankings returns
  resorted,       \* part 5: the list sortRankings returns for that list
  sortPc,         \* part 5: "off", "unsorted", "sorted" or "resorted"
  dbCandles,      \* part 6: CandleDb, per pair the open times it holds
  updEnd,         \* part 6: the end of State.config
  updPc,          \* part 6: position of updateData
  updI,           \* part 6: loop index of updateData over the products
  updLocals,      \* part 6: ProductData.update, its buckets
  updRankings,    \* part 6: State.currentRankings
  coreErrs,       \* part 6: the provider calls whose error coreErr logged
  ntfPc,          \* part 7: position of the entry point and of updateData
  emitSocket,     \* part 7: EmitServer.socket is defined
  emitEnabled,    \* part 7: EmitServer.enabled
  ntfStages,      \* part 7: the stages the cycle has run
  ntfFailures,    \* part 7: the calls that failed in the cycle (history)
  ntfDetached,    \* part 7: the promises updateData did not await, pending
  ntfUnhandled,   \* part 7: the promises rejected with no handler
  ntfCaught,      \* part 7: the catch of updateDataWrapper has run
  cfg,            \* part 8: the configuration the process is started with
  cfgPc,          \* part 8: position of the entry point
  cfgThrown,      \* part 8: "none", or the constructor that threw
  cfgScheduled,   \* part 8: schedule(cronSchedule, ...) was called
  cfgCycles,      \* part 8: the number of cycles that have started
  indCloses,      \* part 9: the bucket closes, oldest first
  quoteDec,       \* part 9: the decimals of the product's quote increment
  maRange,        \* part 9: the window given to sma and to ema
  smas,           \* part 9: the list sma returns
  emas,           \* part 9: the list ema returns
  maSet,          \* part 9: the MASet of createMASet
  macds,          \* part 9: the MACD of createMACD (value and signal series)
  indicators,     \* part 9: the Indicators createIndicators returns
  indPc,          \* part 9: "off", "given", "sma", "ema" or "created"
  refProducts,    \* part 10: the ids of Products.filter(PRODUCT_OPTS)
  productData,    \* part 10: PRODUCT_DATA, per product its two rankings
  currentRankings, \* part 10: State.currentRankings
  cycPc,          \* part 10: "off", "init", "idle", "update" or "analysis"
  cycI,           \* part 10: the index i of the loop over the products
  updates,        \* part 10: per product what update returned in this pass
  analysisRes,    \* part 10: per product the messages of the last doAnalysis
  macdTrend,      \* part 10: history, the sign of the last MACD value off
                  \*          zero that doAnalysis has read for the product
  stateCall       \* part 11: the last call made to the State, with its
                  \*          arguments

schedVars ==
  <<mainPc, configOk, initI, initialized, updating, isEnabled, cronRegistered,
    fired, trig, idx, arrivedBusy, rankings, readState, statuses,
    mongoPending, candleLoads, sigintFired, kill, httpActive, exited>>

candleVars ==
  <<oldCandles, newCandles, oldestTs, maxCandles, candles, candlePc>>

\* The variables of the parts that apply pure functions to drawn inputs.
bucketVars ==
  <<bucketCandles, optsEnd, candlesPer, totalBuckets, bucketData, bucketErrs,
    bucketPc>>

crossVars ==
  <<lastR, currentR, crossMsgs, crossPc>>

sortVars ==
  <<unsorted, sortFilter, sorted, resorted, sortPc>>

updVars ==
  <<dbCandles, updEnd, updPc, updI, updLocals, updRankings, coreErrs>>

ntfVars ==
  <<ntfPc, emitSocket, emitEnabled, ntfStages, ntfFailures, ntfDetached,
    ntfUnhandled, ntfCaught>>

cfgVars ==
  <<cfg, cfgPc, cfgThrown, cfgScheduled, cfgCycles>>

indVars ==
  <<indCloses, quoteDec, maRange, smas, emas, maSet, macds, indicators,
    indPc>>

cycVars ==
  <<refProducts, productData, currentRankings, cycPc, cycI, updates,
    analysisRes, macdTrend>>

callVars ==
  <<stateCall>>

pureVars ==
  <<candleVars, bucketVars, crossVars, sortVars, updVars, ntfVars, cfgVars,
    indVars, cycVars, callVars>>

vars ==
  <<schedVars, pureVars>>

\* ---------------------------------------------------------------- helpers
\* Positions of an updateDataWrapper invocation whose updateData is running.
RunningPcs ==
  {"currencies", "products", "fetch", "savePre", "saveQuery", "rank", "drain"}

InFlight(t) ==
  trig[t] \in RunningPcs

CyclesInFlight ==
  {t \in Triggers : InFlight(t)}

\* initState is running.
InitRunning ==
  mainPc \in {"initRefs", "initLoop"}

\* CandleDb.isSaving(): some entry of CandleDb.statuses is true.
IsSaving ==
  \E p \in Pairs : statuses[p]

\* A CandleDb.saveCandles call that has not resolved yet.
SqlSaveInFlight ==
  \E t \in Triggers : trig[t] \in {"savePre", "saveQuery"}

\* Any candle write that has been issued and has not completed.
SaveInFlight ==
  SqlSaveInFlight \/ mongoPending > 0

Alive ==
  exited = "no"

NoRanking ==
  [p \in Pairs |-> 0]

\* The number that updateDataWrapper invocation t leaves in the records it
\* stores (initState leaves 1).
Writer(t) ==
  t + 1

\* ProductData.loadCandles(oldestTsISO): CandleDb.loadCandles is queried.  The
\* value records whether pair p is loaded for the first time ("seeded") or
\* loaded once more ("again").
LoadCandles(loads, p) ==
  [loads EXCEPT ![p] = IF loads[p] = "none" THEN "seeded" ELSE "again"]

\* ----------------------------------------------------- the reader monitor
\* State.getSortedRankings() returns the values of State.currentRankings as
\* they are at the call.  The reader sees a "mix" when a cycle is in flight
\* and the map holds a record of that cycle next to a record of an earlier
\* writer, and sees a "whole" map otherwise.
ReadSees ==
  IF \E t \in CyclesInFlight : \E p, q \in Pairs :
       /\ rankings[p] = Writer(t)
       /\ rankings[q] # Writer(t)
       /\ rankings[q] # 0
    THEN "mix"
    ELSE "whole"

\* The monitor after the cycle in flight has stored one more record: the mix
\* a reader was given is "torn", it is neither the map the cycle started from
\* nor the map the cycle ends with.
AfterWrite(rs) ==
  IF rs = "mix" THEN "torn" ELSE rs

\* The monitor after the cycle in flight has ended without another record:
\* what the reader was given is the map the cycle ended with.
AfterEnd(rs) ==
  IF rs = "mix" THEN "whole" ELSE rs

\* ------------------------------------------- State.updateDataWrapper guard
\* A faulty variant of the guard: a busy State never skips a tick.
GuardSkipsDropped(upd) ==
  FALSE

\* `if (State.isUpdating) { discordWarn(...); return; }`
GuardSkips(upd) ==
  upd

\* A faulty variant of the guard: a disabled State never refuses a tick.
GuardRefusesDropped(en) ==
  FALSE

\* `else if (!State.isEnabled) return;`
GuardRefuses(en) ==
  ~en

\* A faulty variant: the guard is cleared in `then` and not after a throw.
ClearedOnSuccessOnly(threw) ==
  threw

\* `.finally(() => { State.updating = false; })`: the value the guard gets
\* when updateData has settled, thrown or not.
FinallyUpdating(threw) ==
  FALSE

\* A faulty variant: initWrapper does not take the guard.
InitLeavesGuard ==
  FALSE

\* `State.updating = true;` of initWrapper, before initState is called.
InitHoldsGuard ==
  TRUE

\* State.disable(): `if (!State.isEnabled) return; State.isEnabled = false;`
DisableEnabled(en) ==
  IF ~en THEN en ELSE FALSE

\* A faulty variant: disable() also releases the guard.
DisableClearsGuard(upd) ==
  FALSE

\* State.disable(): State.updating is not written.
DisableUpdating(upd) ==
  upd

\* A faulty variant: killAll does not look at State.isUpdating.
KillWaitsDropped(upd) ==
  FALSE

\* killAll: `if (State.isUpdating) { while (State.isUpdating) await delay(250); }`
KillWaits(upd) ==
  upd

\* ------------------------------------------------------------- killAll
\* HTTPServer.stop(); if (HTTPServer.isActive) poll; process.exit().
KillAfterHttp(http) ==
  IF http THEN "pollHttp" ELSE "exit"

\* if (CandleDb.isSaving()) poll, kill the connection; then the HTTP server.
KillAfterSaving(saving, http) ==
  IF saving THEN "pollSaving" ELSE KillAfterHttp(http)

\* State.disable(); if (State.isUpdating) poll; then the candle saves.
KillAfterUpdating(upd, saving, http) ==
  IF KillWaits(upd) THEN "pollUpdating" ELSE KillAfterSaving(saving, http)

\* killAll, from its call to its first await (or to process.exit()), called
\* when State.updating is upd.
KillStart(k, upd) ==
  LET pc == KillAfterUpdating(DisableUpdating(upd), IsSaving, httpActive) IN
  /\ isEnabled' = DisableEnabled(isEnabled)
  /\ updating' = DisableUpdating(upd)
  /\ kill' = [kill EXCEPT ![k] = pc]
  /\ exited' = IF pc = "exit" THEN "killAll" ELSE exited

\* The catch handler of the entry point: appErr(...); await killAll().
MainCatch(upd) ==
  /\ mainPc' = "exiting"
  /\ KillStart("catch", upd)

\* ------------------------------------------------------------------- Init
SchedInit ==
  /\ mainPc = "boot"
  /\ configOk \in BOOLEAN
  /\ initI = 0
  /\ initialized = FALSE
  /\ updating = FALSE
  /\ isEnabled = TRUE
  /\ cronRegistered = FALSE
  /\ fired = 0
  /\ trig = [t \in Triggers |-> "idle"]
  /\ idx = [t \in Triggers |-> 0]
  /\ arrivedBusy = [t \in Triggers |-> FALSE]
  /\ rankings = NoRanking
  /\ readState = "none"
  /\ statuses = [p \in Pairs |-> FALSE]
  /\ mongoPending = 0
  /\ candleLoads = [p \in Pairs |-> "none"]
  /\ sigintFired = 0
  /\ kill = [k \in Killers |-> "off"]
  /\ httpActive = FALSE
  /\ exited = "no"

CandleIdle ==
  /\ oldCandles = <<>>
  /\ newCandles = <<>>
  /\ oldestTs = 0
  /\ maxCandles = 0
  /\ candles = <<>>
  /\ candlePc = "off"

BucketIdle ==
  /\ bucketCandles = <<>>
  /\ optsEnd = 0
  /\ candlesPer = 0
  /\ totalBuckets = 0
  /\ bucketData = <<>>
  /\ bucketErrs = 0
  /\ bucketPc = "off"

\* A moving-average value is a number; 0 stands for a value that is not
\* set (undefined) as well as for the number 0: the cross analysis reads a
\* value with `!value` first and treats the two alike.
NoMAValues ==
  [twelve |-> 0, twentysix |-> 0, fifty |-> 0, twohundred |-> 0]

\* A ranking that is undefined.
NoRankingYet ==
  [defined |-> FALSE, sma |-> NoMAValues, ema |-> NoMAValues]

CrossIdle ==
  /\ lastR = NoRankingYet
  /\ currentR = NoRankingYet
  /\ crossMsgs = <<>>
  /\ crossPc = "off"

\* The filter the State is constructed with: no flag set, no count.
NoFilter ==
  [count |-> 0, close |-> FALSE, diff |-> FALSE, volume |-> FALSE,
   movement |-> FALSE, overbought |-> FALSE, oversold |-> FALSE]

SortIdle ==
  /\ unsorted = <<>>
  /\ sortFilter = NoFilter
  /\ sorted = <<>>
  /\ resorted = <<>>
  /\ sortPc = "off"

\* A ProductRanking that is undefined.
NoRank ==
  [defined |-> FALSE, productId |-> 0, dataPoints |-> 0, movement |-> 0]

\* State.currentRankings before the first record is stored.
NoRankings ==
  [p \in Pairs |-> NoRank]

\* The locals of ProductData.update outside of a call.
NoLocals ==
  [buckets |-> <<>>]

UpdIdle ==
  /\ dbCandles = [p \in Pairs |-> <<>>]
  /\ updEnd = 0
  /\ updPc = "off"
  /\ updI = 0
  /\ updLocals = NoLocals
  /\ updRankings = NoRankings
  /\ coreErrs = {}

NtfIdle ==
  /\ ntfPc = "off"
  /\ emitSocket = FALSE
  /\ emitEnabled = FALSE
  /\ ntfStages = {}
  /\ ntfFailures = {}
  /\ ntfDetached = {}
  /\ ntfUnhandled = {}
  /\ ntfCaught = FALSE

CfgIdle ==
  /\ cfg = [mCandleSize |-> 0, frequency |-> 0, candlesPer |-> 0]
  /\ cfgPc = "off"
  /\ cfgThrown = "none"
  /\ cfgScheduled = FALSE
  /\ cfgCycles = 0

IndIdle ==
  /\ indCloses = <<>>
  /\ quoteDec = 0
  /\ maRange = 1
  /\ smas = <<>>
  /\ emas = <<>>
  /\ maSet = <<>>
  /\ macds = <<>>
  /\ indicators = <<>>
  /\ indPc = "off"

\* A ranking that is undefined, with the indicators the analysis reads.
NoSnapshot ==
  [defined |-> FALSE, sma |-> NoMAValues, ema |-> NoMAValues, rsi |-> <<>>,
   macd |-> [value |-> <<>>, signal |-> <<>>]]

\* PRODUCT_DATA.get(productId) of a product that has no ProductData.
NoProductData ==
  [exists |-> FALSE, lastRanking |-> NoSnapshot, currentRanking |-> NoSnapshot]

\* `const res: AnalysisResults = {cross: [], macd: [], rsi: []}`.
NoAnalysis ==
  [cross |-> <<>>, macd |-> <<>>, rsi |-> <<>>]

CycIdle ==
  /\ refProducts = {}
  /\ productData = [p \in Pairs |-> NoProductData]
  /\ currentRankings = [p \in Pairs |-> NoSnapshot]
  /\ cycPc = "off"
  /\ cycI = 0
  /\ updates = [p \in Pairs |-> "none"]
  /\ analysisRes = [p \in Pairs |-> NoAnalysis]
  /\ macdTrend = [p \in Pairs |-> 0]

\* A partial SortFilter without any field.
NoPartial ==
  [count |-> <<>>, close |-> <<>>, diff |-> <<>>, volume |-> <<>>,
   movement |-> <<>>, overbought |-> <<>>, oversold |-> <<>>]

\* No call was made to the State yet.
NoCall ==
  [op |-> "none", filter |-> NoPartial, filterOverride |-> <<>>]

CallIdle ==
  stateCall = NoCall

Init ==
  /\ SchedInit
  /\ CandleIdle
  /\ BucketIdle
  /\ CrossIdle
  /\ SortIdle
  /\ UpdIdle
  /\ NtfIdle
  /\ CfgIdle
  /\ IndIdle
  /\ CycIdle
  /\ CallIdle

\* ------------------------------------------------- entry point, start-up
\* One of the awaits before State.initWrapper (connect, spawnConnection,
\* DiscordBot.init) rejects: the catch handler of the entry point runs.
MainBootFails ==
  /\ Alive /\ mainPc = "boot"
  /\ MainCatch(updating)
  /\ UNCHANGED <<configOk, initI, initialized, cronRegistered, fired, trig,
                 idx, arrivedBusy, rankings, readState, statuses,
                 mongoPending, candleLoads, sigintFired, httpActive>>
  /\ UNCHANGED pureVars

\* State.initWrapper up to the first await of initState: the re-entry guard,
\* State.updating = true, new State(opts), schedule(...).  A rejected
\* configuration makes initState reject at once: the finally block runs and
\* the rejection reaches the catch handler of the entry point.
MainInitWrapper ==
  /\ Alive /\ mainPc = "boot"
  /\ IF initialized \/ ~isEnabled
       THEN /\ mainPc' = "listen"
            /\ UNCHANGED <<initialized, updating, cronRegistered, isEnabled,
                           kill, exited>>
       ELSE IF configOk
         THEN /\ updating' = InitHoldsGuard
              /\ cronRegistered' = TRUE
              /\ mainPc' = "initRefs"
              /\ UNCHANGED <<initialized, isEnabled, kill, exited>>
         ELSE /\ initialized' = TRUE
              /\ MainCatch(FALSE)
              /\ UNCHANGED cronRegistered
  /\ UNCHANGED <<configOk, initI, fired, trig, idx, arrivedBusy, rankings,
                 readState, statuses, mongoPending, candleLoads, sigintFired,
                 httpActive>>
  /\ UNCHANGED pureVars

\* initState: await initProduct(); await initCurrency().
InitRefs ==
  /\ Alive /\ mainPc = "initRefs"
  /\ mainPc' = "initLoop"
  /\ initI' = 1
  /\ UNCHANGED <<configOk, initialized, updating, isEnabled, cronRegistered,
                 fired, trig, idx, arrivedBusy, rankings, readState, statuses,
                 mongoPending, candleLoads, sigintFired, kill, httpActive,
                 exited>>
  /\ UNCHANGED pureVars

\* initState, one iteration of the loop: await pData.update(start);
\* if (update.data) State.setRanking(update.data).
InitPair ==
  /\ Alive /\ mainPc = "initLoop" /\ initI <= NumPairs
  /\ \E data \in BOOLEAN :
       rankings' = IF data THEN [rankings EXCEPT ![initI] = 1] ELSE rankings
  /\ candleLoads' = LoadCandles(candleLoads, initI)
  /\ initI' = initI + 1
  /\ UNCHANGED <<mainPc, configOk, initialized, updating, isEnabled,
                 cronRegistered, fired, trig, idx, arrivedBusy, readState,
                 statuses, mongoPending, sigintFired, kill, httpActive, exited>>
  /\ UNCHANGED pureVars

\* initState returns; the finally block of initWrapper; then the entry point
\* enables the emitter and calls HTTPServer.start().
InitFinish ==
  /\ Alive /\ mainPc = "initLoop" /\ initI = NumPairs + 1
  /\ initialized' = TRUE
  /\ updating' = FALSE
  /\ mainPc' = "listen"
  /\ initI' = 0
  /\ UNCHANGED <<configOk, isEnabled, cronRegistered, fired, trig, idx,
                 arrivedBusy, rankings, readState, statuses, mongoPending,
                 candleLoads, sigintFired, kill, httpActive, exited>>
  /\ UNCHANGED pureVars

\* initState rejects at one of its awaits: the finally block of initWrapper
\* runs and the rejection reaches the catch handler of the entry point.
InitThrows ==
  /\ Alive /\ InitRunning
  /\ initialized' = TRUE
  /\ initI' = 0
  /\ MainCatch(FALSE)
  /\ UNCHANGED <<configOk, cronRegistered, fired, trig, idx, arrivedBusy,
                 rankings, readState, statuses, mongoPending, candleLoads,
                 sigintFired, httpActive>>
  /\ UNCHANGED pureVars

\* The listen callback of HTTPServer.start().
HttpListening ==
  /\ Alive /\ mainPc = "listen"
  /\ httpActive' = TRUE
  /\ mainPc' = "serve"
  /\ UNCHANGED <<configOk, initI, initialized, updating, isEnabled,
                 cronRegistered, fired, trig, idx, arrivedBusy, rankings,
                 readState, statuses, mongoPending, candleLoads, sigintFired,
                 kill, exited>>
  /\ UNCHANGED pureVars

\* ------------------------------------------------------ cron and the guard
\* node-cron calls State.updateDataWrapper, which runs to `await delay(20000)`.
CronFire(t) ==
  /\ Alive /\ cronRegistered /\ t = fired + 1
  /\ fired' = t
  /\ trig' = [trig EXCEPT ![t] = "delay"]
  /\ arrivedBusy' = [arrivedBusy EXCEPT ![t] = updating]
  /\ UNCHANGED <<mainPc, configOk, initI, initialized, updating, isEnabled,
                 cronRegistered, idx, rankings, readState, statuses,
                 mongoPending, candleLoads, sigintFired, kill, httpActive,
                 exited>>
  /\ UNCHANGED pureVars

\* The delay of invocation t is over (timers of equal length expire in the
\* order they were set): the guard, and for a cycle that starts,
\* State.updating = true and updateData up to its first await.
GuardCheck(t) ==
  /\ Alive /\ trig[t] = "delay"
  /\ \A s \in Triggers : s < t => trig[s] # "delay"
  /\ arrivedBusy' = [arrivedBusy EXCEPT ![t] = FALSE]
  /\ IF GuardSkips(updating)
       THEN /\ trig' = [trig EXCEPT ![t] = "skipped"]
            /\ UNCHANGED <<updating, idx>>
       ELSE IF GuardRefuses(isEnabled)
         THEN /\ trig' = [trig EXCEPT ![t] = "refused"]
              /\ UNCHANGED <<updating, idx>>
         ELSE /\ updating' = TRUE
              /\ trig' = [trig EXCEPT ![t] = "currencies"]
              /\ idx' = [idx EXCEPT ![t] = 1]
  /\ UNCHANGED <<mainPc, configOk, initI, initialized, isEnabled,
                 cronRegistered, fired, rankings, readState, statuses,
                 mongoPending, candleLoads, sigintFired, kill, httpActive,
                 exited>>
  /\ UNCHANGED pureVars

\* --------------------------------------------------------------- updateData
\* await updateCurrencies() has settled.
CycleCurrencies(t) ==
  /\ Alive /\ trig[t] = "currencies"
  /\ trig' = [trig EXCEPT ![t] = "products"]
  /\ UNCHANGED <<mainPc, configOk, initI, initialized, updating, isEnabled,
                 cronRegistered, fired, idx, arrivedBusy, rankings, readState,
                 statuses, mongoPending, candleLoads, sigintFired, kill,
                 httpActive, exited>>
  /\ UNCHANGED pureVars

\* await updateProducts() has settled; the loop over the products begins with
\* pData.update(...), which awaits its candles.
CycleProducts(t) ==
  /\ Alive /\ trig[t] = "products"
  /\ trig' = [trig EXCEPT ![t] = "fetch"]
  /\ UNCHANGED <<mainPc, configOk, initI, initialized, updating, isEnabled,
                 cronRegistered, fired, idx, arrivedBusy, rankings, readState,
                 statuses, mongoPending, candleLoads, sigintFired, kill,
                 httpActive, exited>>
  /\ UNCHANGED pureVars

\* ProductData.update: loadCandles and getCandles have settled.  With new
\* candles getCandles has called saveCandles(...) without awaiting it, and
\* update goes on to `await CandleDb.saveCandles(...)`; without new candles
\* update goes on to `await this.getMovement()`.
CycleFetch(t) ==
  /\ Alive /\ trig[t] = "fetch"
  /\ \E pulledNew \in BOOLEAN :
       IF pulledNew
         THEN /\ mongoPending < MaxPending
              /\ mongoPending' = mongoPending + 1
              /\ trig' = [trig EXCEPT ![t] = "savePre"]
         ELSE /\ trig' = [trig EXCEPT ![t] = "rank"]
              /\ UNCHANGED mongoPending
  /\ candleLoads' = LoadCandles(candleLoads, idx[t])
  /\ UNCHANGED <<mainPc, configOk, initI, initialized, updating, isEnabled,
                 cronRegistered, fired, idx, arrivedBusy, rankings, readState,
                 statuses, sigintFired, kill, httpActive, exited>>
  /\ UNCHANGED pureVars

\* CandleDb.saveCandles: getConnection and tableExists have settled.  Either
\* the INSERT is issued and CandleDb.statuses[productId] becomes true, or the
\* table could not be created and the call resolves false.
CycleSaveBegin(t) ==
  /\ Alive /\ trig[t] = "savePre"
  /\ \E table \in BOOLEAN :
       IF table
         THEN /\ statuses' = [statuses EXCEPT ![idx[t]] = TRUE]
              /\ trig' = [trig EXCEPT ![t] = "saveQuery"]
         ELSE /\ trig' = [trig EXCEPT ![t] = "rank"]
              /\ UNCHANGED statuses
  /\ UNCHANGED <<mainPc, configOk, initI, initialized, updating, isEnabled,
                 cronRegistered, fired, idx, arrivedBusy, rankings, readState,
                 mongoPending, candleLoads, sigintFired, kill, httpActive,
                 exited>>
  /\ UNCHANGED pureVars

\* The callback of the INSERT: the promise resolves and
\* CandleDb.statuses[productId] becomes false.
CycleSaveEnd(t) ==
  /\ Alive /\ trig[t] = "saveQuery"
  /\ statuses' = [statuses EXCEPT ![idx[t]] = FALSE]
  /\ trig' = [trig EXCEPT ![t] = "rank"]
  /\ UNCHANGED <<mainPc, configOk, initI, initialized, updating, isEnabled,
                 cronRegistered, fired, idx, arrivedBusy, rankings, readState,
                 mongoPending, candleLoads, sigintFired, kill, httpActive,
                 exited>>
  /\ UNCHANGED pureVars

\* The tail of updateData once the loop is over: when CandleDb.isSaving() it
\* polls, otherwise it publishes, returns, and the finally block runs.
CycleTail(t, saving) ==
  IF saving
    THEN /\ trig' = [trig EXCEPT ![t] = "drain"]
         /\ idx' = idx
         /\ updating' = updating
    ELSE /\ trig' = [trig EXCEPT ![t] = "done"]
         /\ idx' = [idx EXCEPT ![t] = 0]
         /\ updating' = FinallyUpdating(FALSE)

\* getMovement has settled: update builds the record and returns, updateData
\* stores it (`if (update.data) State.setRanking(update.data)`) and either
\* starts the next pData.update or runs its tail.  At "drain" the poll
\* `while (CandleDb.isSaving()) await delay(250)` wakes up.
CycleRank(t) ==
  /\ Alive /\ trig[t] \in {"rank", "drain"}
  /\ IF trig[t] = "rank"
       THEN \E data \in BOOLEAN :
              LET seen == IF data THEN AfterWrite(readState) ELSE readState IN
              /\ rankings' = IF data
                               THEN [rankings EXCEPT ![idx[t]] = Writer(t)]
                               ELSE rankings
              /\ IF idx[t] < NumPairs
                   THEN /\ trig' = [trig EXCEPT ![t] = "fetch"]
                        /\ idx' = [idx EXCEPT ![t] = idx[t] + 1]
                        /\ readState' = seen
                        /\ UNCHANGED updating
                   ELSE /\ CycleTail(t, IsSaving)
                        /\ readState' =
                             IF IsSaving THEN seen ELSE AfterEnd(seen)
       ELSE /\ ~IsSaving
            /\ CycleTail(t, FALSE)
            /\ readState' = AfterEnd(readState)
            /\ UNCHANGED rankings
  /\ UNCHANGED <<mainPc, configOk, initI, initialized, isEnabled,
                 cronRegistered, fired, arrivedBusy, statuses, mongoPending,
                 candleLoads, sigintFired, kill, httpActive, exited>>
  /\ UNCHANGED pureVars

\* updateData rejects at one of its awaits (an error that none of the calls
\* it makes catches): the catch block logs, the finally block runs.
CycleThrows(t) ==
  /\ Alive /\ trig[t] \in {"currencies", "products", "fetch", "savePre"}
  /\ trig' = [trig EXCEPT ![t] = "failed"]
  /\ idx' = [idx EXCEPT ![t] = 0]
  /\ updating' = FinallyUpdating(TRUE)
  /\ readState' = AfterEnd(readState)
  /\ UNCHANGED <<mainPc, configOk, initI, initialized, isEnabled,
                 cronRegistered, fired, arrivedBusy, rankings, statuses,
                 mongoPending, candleLoads, sigintFired, kill, httpActive,
                 exited>>
  /\ UNCHANGED pureVars

\* The un-awaited saveCandles(...) of getCandles completes.
MongoSaved ==
  /\ Alive /\ mongoPending > 0
  /\ mongoPending' = mongoPending - 1
  /\ UNCHANGED <<mainPc, configOk, initI, initialized, updating, isEnabled,
                 cronRegistered, fired, trig, idx, arrivedBusy, rankings,
                 readState, statuses, candleLoads, sigintFired, kill,
                 httpActive, exited>>
  /\ UNCHANGED pureVars

\* ------------------------------------------------------------------ readers
\* State.getSortedRankings() / State.getRanking(): a command or the connect
\* callback of the emitter reads State.currentRankings.
Read ==
  /\ Alive /\ readState # "torn"
  /\ readState' = ReadSees
  /\ UNCHANGED <<mainPc, configOk, initI, initialized, updating, isEnabled,
                 cronRegistered, fired, trig, idx, arrivedBusy, rankings,
                 statuses, mongoPending, candleLoads, sigintFired, kill,
                 httpActive, exited>>
  /\ UNCHANGED pureVars

\* ----------------------------------------------------------------- shutdown
\* The SIGINT handler: the first signal runs killAll, the next ones are
\* ignored, and from the fifth the handler calls process.exit().
Sigint ==
  /\ Alive /\ sigintFired < ForceExitAt
  /\ sigintFired' = sigintFired + 1
  /\ IF sigintFired' > FirstSigint /\ sigintFired' < ForceExitAt
       THEN UNCHANGED <<isEnabled, updating, kill, exited>>
       ELSE IF sigintFired' >= ForceExitAt
         THEN /\ exited' = "forced"
              /\ UNCHANGED <<isEnabled, updating, kill>>
         ELSE KillStart("sigint", updating)
  /\ UNCHANGED <<mainPc, configOk, initI, initialized, cronRegistered, fired,
                 trig, idx, arrivedBusy, rankings, readState, statuses,
                 mongoPending, candleLoads, httpActive>>
  /\ UNCHANGED pureVars

\* A poll of killAll wakes up and killAll runs to its next await or to
\* process.exit().
KillPoll(k) ==
  /\ Alive /\ kill[k] \in {"pollUpdating", "pollSaving", "killConn", "pollHttp"}
  /\ LET pc == CASE kill[k] = "pollUpdating" ->
                      KillAfterSaving(IsSaving, httpActive)
                 [] kill[k] = "pollSaving" -> "killConn"
                 [] kill[k] = "killConn" -> KillAfterHttp(httpActive)
                 [] OTHER -> "exit"
     IN /\ CASE kill[k] = "pollUpdating" -> ~KillWaits(updating)
              [] kill[k] = "pollSaving" -> ~IsSaving
              [] kill[k] = "killConn" -> TRUE
              [] OTHER -> ~httpActive
        /\ kill' = [kill EXCEPT ![k] = pc]
        /\ exited' = IF pc = "exit" THEN "killAll" ELSE exited
  /\ UNCHANGED <<mainPc, configOk, initI, initialized, updating, isEnabled,
                 cronRegistered, fired, trig, idx, arrivedBusy, rankings,
                 readState, statuses, mongoPending, candleLoads, sigintFired,
                 httpActive>>
  /\ UNCHANGED pureVars

\* The close callback of HTTPServer.stop().
HttpClosed ==
  /\ Alive /\ httpActive
  /\ \E k \in Killers : kill[k] = "pollHttp"
  /\ httpActive' = FALSE
  /\ UNCHANGED <<mainPc, configOk, initI, initialized, updating, isEnabled,
                 cronRegistered, fired, trig, idx, arrivedBusy, rankings,
                 readState, statuses, mongoPending, candleLoads, sigintFired,
                 kill, exited>>
  /\ UNCHANGED pureVars

Next ==
  \/ MainBootFails
  \/ MainInitWrapper
  \/ InitRefs
  \/ InitPair
  \/ InitFinish
  \/ InitThrows
  \/ HttpListening
  \/ \E t \in Triggers : CronFire(t)
  \/ \E t \in Triggers : GuardCheck(t)
  \/ \E t \in Triggers : CycleCurrencies(t)
  \/ \E t \in Triggers : CycleProducts(t)
  \/ \E t \in Triggers : CycleFetch(t)
  \/ \E t \in Triggers : CycleSaveBegin(t)
  \/ \E t \in Triggers : CycleSaveEnd(t)
  \/ \E t \in Triggers : CycleRank(t)
  \/ \E t \in Triggers : CycleThrows(t)
  \/ MongoSaved
  \/ Read
  \/ Sigint
  \/ \E k \in Killers : KillPoll(k)
  \/ HttpClosed

Spec ==
  Init /\ [][Next]_vars

\* =========================================================================
\* Part 2 - the candle merge.  A candle is modelled by its open time: the
\* code compares openTimeInISO strings, which Date.toISOString() writes at a
\* fixed width, so their order is the order of the times.
\* =========================================================================
Ts == 0..MaxTs

Min(S) ==
  CHOOSE x \in S : \A y \in S : x <= y

\* The ascending list of the open times in S, as the provider and
\* `ORDER BY openTimeInISO ASC` return them.
RECURSIVE SortedList(_)
SortedList(S) ==
  IF S = {} THEN <<>> ELSE <<Min(S)>> \o SortedList(S \ {Min(S)})

\* The candle lists that are drawn: ascending, without duplicate open times.
CandleLists ==
  {SortedList(S) : S \in {T \in SUBSET (1..MaxTs) : Cardinality(T) <= MaxLen}}

\* A faulty variant of the splice: the last n elements are removed.
SpliceTail(list, n) ==
  SubSeq(list, 1, Len(list) - n)

\* Array.prototype.splice(0, n) on list: the elements after the first n.
Splice(list, n) ==
  SubSeq(list, n + 1, Len(list))

\* Array.prototype.findIndex((c) => c.openTimeInISO > ts): the 0-based index
\* of the first candle newer than ts, or -1.
FindIndex(list, ts) ==
  IF \E i \in 1..Len(list) : list[i] > ts
    THEN Min({i \in 1..Len(list) : list[i] > ts}) - 1
    ELSE -1

\* A faulty variant of the shift: the list is never cut to its cap.
ShiftDropped(list, new, cap) ==
  list

\* combineCandles, "Shift the array":
\* if (oldCandles.length > maxCandles && newCandles.length > 0)
\*   oldCandles.splice(0, oldCandles.length - maxCandles);
Shift(list, new, cap) ==
  IF Len(list) > cap /\ Len(new) > 0
    THEN Splice(list, Len(list) - cap)
    ELSE list

\* combineCandles, "Remove candles that are outdated".
DropOutdated(list, ts) ==
  IF Len(list) > 0 /\ list[1] <= ts
    THEN LET index == FindIndex(list, ts) IN
         IF index >= 0 THEN Splice(list, index) ELSE list
    ELSE list

combineCandles(old, new, ts, cap) ==
  LET joined == IF Len(new) > 0 THEN Shift(old \o new, new, cap) ELSE old
  IN DropOutdated(joined, ts)

\* UpdateData.totalCandles(opts).
totalCandles(old, new, ts, cap) ==
  IF ~(Len(new) > 0) THEN old ELSE combineCandles(old, new, ts, cap)

\* The inputs of one ProductData.update: the stored candles, the pulled
\* candles (pulled from the last stored open time on, so newer than every
\* stored one), the start of the span and the candle count of the options.
CandleInit ==
  /\ SchedInit /\ configOk
  /\ oldCandles \in CandleLists
  /\ newCandles \in CandleLists
  /\ \A i \in 1..Len(oldCandles) : \A j \in 1..Len(newCandles) :
       oldCandles[i] < newCandles[j]
  /\ oldestTs \in Ts
  /\ maxCandles \in 1..MaxCap
  /\ candles = <<>>
  /\ candlePc = "pulled"
  /\ BucketIdle
  /\ CrossIdle
  /\ SortIdle
  /\ UpdIdle
  /\ NtfIdle
  /\ CfgIdle
  /\ IndIdle
  /\ CycIdle
  /\ CallIdle

\* ProductData.update: `this.createBuckets(updateData.totalCandles(dataOpts),
\* dataOpts)`, the merged list is the one the buckets are built from.
CandleTotal ==
  /\ candlePc = "pulled"
  /\ candles' = totalCandles(oldCandles, newCandles, oldestTs, maxCandles)
  /\ candlePc' = "merged"
  /\ UNCHANGED <<oldCandles, newCandles, oldestTs, maxCandles>>
  /\ UNCHANGED <<schedVars, bucketVars, crossVars, sortVars, updVars, ntfVars, cfgVars, indVars, cycVars, callVars>>

CandleNext ==
  CandleTotal

CandleSpec ==
  CandleInit /\ [][CandleNext]_vars

\* =========================================================================
\* Part 3 - the bucket aggregator.  A candle is its open time, its high, its
\* low and its close; times are counted in units of which one candle spans
\* CandleSize.
\* The cascade options of createBucketData are left undefined, as they are
\* in the one call of the program (ProductData.createBuckets).
\* =========================================================================
Max(a, b) ==
  IF a >= b THEN a ELSE b

Slots == 1..MaxSlots

\* The (low, high) of a candle of the provider: 0 <= low <= high.
Quotes ==
  {[low |-> l, high |-> h] : l \in 0..MaxPrice, h \in 0..MaxPrice} \cap
  {q \in [low : 0..MaxPrice, high : 0..MaxPrice] : q.low <= q.high}

\* Marks a slot for which the list holds no candle.
NoCandle ==
  [low |-> -1, high |-> -1]

\* The ascending candle list that holds, for every slot s with a quote, the
\* candle that opens at s * CandleSize; it closes at its high, with a volume
\* of 1.
CandlesOf(f) ==
  LET sl == SortedList({s \in Slots : f[s] # NoCandle}) IN
  [i \in 1..Len(sl) |->
    [openTimeInISO |-> sl[i] * CandleSize, high |-> f[sl[i]].high,
     low |-> f[sl[i]].low, close |-> f[sl[i]].high, volume |-> 1]]

GapSlots == 1..MaxGapSlots

\* The ascending candle list that holds, for every slot s with a price f[s]
\* above 0, the candle that opens at s * CandleSize and stays at that price.
GapCandlesOf(f) ==
  LET sl == SortedList({s \in GapSlots : f[s] > 0}) IN
  [i \in 1..Len(sl) |->
    [openTimeInISO |-> sl[i] * CandleSize, high |-> f[sl[i]],
     low |-> f[sl[i]], close |-> f[sl[i]], volume |-> 1]]

\* setToZero(ts, interval): the time is moved back to a multiple of the
\* candle size.
setToZero(ts) ==
  ts - (ts % CandleSize)

\* A faulty variant: the length of a bucket counts one candle too many.
bucketLengthLong(per) ==
  (per + 1) * CandleSize

\* DataOpts.bucketLengthMs: candlesPer candles.
bucketLengthMs(per) ==
  per * CandleSize

\* createCandleBuckets, the preprocessing loop: the spans, NEWEST to OLDEST.
\* The first span is getSpan(end - bucketLength, candleSize, end), every later
\* one ends where the one before it starts.
Spans(end, per, total) ==
  LET start0 == setToZero(end - bucketLengthMs(per))
      end0 == setToZero(end)
  IN [k \in 1..total |->
       [start |-> start0 - (k - 1) * bucketLengthMs(per),
        end |-> IF k = 1 THEN end0
                ELSE start0 - (k - 2) * bucketLengthMs(per)]]

\* createCandleBuckets, the preprocessing loop: the empty buckets, each with
\* the end of its span as timestamp.
EmptyBuckets(spans) ==
  [k \in 1..Len(spans) |-> [timestampISO |-> spans[k].end, candles |-> <<>>]]

\* spans.findIndex((s) => s.start < candle.openTimeInISO) on the spans that
\* are left after the first pos were spliced away: a 0-based index, or -1.
FindSpan(spans, pos, open) ==
  IF \E k \in (pos + 1)..Len(spans) : spans[k].start < open
    THEN Min({k \in (pos + 1)..Len(spans) : spans[k].start < open}) - pos - 1
    ELSE -1

\* createCandleBuckets, the placing loop from candle i down to the first one,
\* with bucketPos = pos (and the first pos spans spliced away).  A candle
\* newer than the start of the first span left is pushed; for any other
\* candle the spans are spliced up to the one it fits in and the loop goes
\* on with the next candle.
RECURSIVE Place(_, _, _, _, _)
Place(cands, spans, i, pos, buckets) ==
  IF i = 0 \/ pos >= Len(spans) THEN buckets
  ELSE IF cands[i].openTimeInISO > spans[pos + 1].start
    THEN Place(cands, spans, i - 1, pos,
               [buckets EXCEPT ![pos + 1].candles = Append(@, cands[i])])
    ELSE LET index == FindSpan(spans, pos, cands[i].openTimeInISO) IN
         Place(cands, spans, i - 1, IF index >= 0 THEN pos + index ELSE pos,
               buckets)

\* A faulty variant of the count below: a log entry is written when the
\* candles end before the spans do.
RECURSIVE PlaceErrsShortfall(_, _, _, _)
PlaceErrsShortfall(cands, spans, i, pos) ==
  IF i = 0 THEN (IF pos + 1 < Len(spans) THEN 1 ELSE 0)
  ELSE IF pos >= Len(spans) THEN 1
  ELSE IF cands[i].openTimeInISO > spans[pos + 1].start
    THEN PlaceErrsShortfall(cands, spans, i - 1, pos)
    ELSE LET index == FindSpan(spans, pos, cands[i].openTimeInISO) IN
         PlaceErrsShortfall(cands, spans, i - 1,
                            IF index >= 0 THEN pos + index ELSE pos)

\* createCandleBuckets, the placing loop: the number of its calls of
\* coreErr(`Ran out of spans for candles.`), each followed by `break`.  The
\* loop finds `spans.length === 0` only when no span was created:
\* spans.splice(0, index) leaves the span of that index.
RECURSIVE PlaceErrs(_, _, _, _)
PlaceErrs(cands, spans, i, pos) ==
  IF i = 0 THEN 0
  ELSE IF pos >= Len(spans) THEN 1
  ELSE IF cands[i].openTimeInISO > spans[pos + 1].start
    THEN PlaceErrs(cands, spans, i - 1, pos)
    ELSE LET index == FindSpan(spans, pos, cands[i].openTimeInISO) IN
         PlaceErrs(cands, spans, i - 1,
                   IF index >= 0 THEN pos + index ELSE pos)

\* A faulty variant: candles that end before the spans do are logged.
coreErrCallsShortfall(cands, end, per, total) ==
  PlaceErrsShortfall(cands, Spans(end, per, total), Len(cands), 0)

\* The number of coreErr calls of createCandleBuckets(candles, opts).
coreErrCalls(cands, end, per, total) ==
  PlaceErrs(cands, Spans(end, per, total), Len(cands), 0)

\* createCandleBuckets(candles, opts): buckets NEWEST to OLDEST, the candles
\* of each NEWEST to OLDEST.
createCandleBuckets(cands, end, per, total) ==
  LET spans == Spans(end, per, total) IN
  Place(cands, spans, Len(cands), 0, EmptyBuckets(spans))

\* Array.prototype.reverse().
Reverse(list) ==
  [i \in 1..Len(list) |-> list[Len(list) + 1 - i]]

\* A faulty variant of findPrev: the search runs towards the newer buckets.
findPrevNewer(values, pos) ==
  IF \E j \in pos..Len(values) : Len(values[j].candles) > 0
    THEN CHOOSE j \in pos..Len(values) :
           /\ Len(values[j].candles) > 0
           /\ \A k \in pos..(j - 1) : Len(values[k].candles) = 0
    ELSE 0

\* findPrev(values, pos): the position of the last bucket with candles at or
\* before pos, 0 when there is none.
findPrev(values, pos) ==
  IF \E j \in 1..pos : Len(values[j].candles) > 0
    THEN CHOOSE j \in 1..pos :
           /\ Len(values[j].candles) > 0
           /\ \A k \in (j + 1)..pos : Len(values[k].candles) = 0
    ELSE 0

\* candleProcessor: `if (c.high > data.price.high) data.price.high = c.high`
\* over the first n candles, from newBucketData's -1.
RECURSIVE PriceHigh(_, _)
PriceHigh(cands, n) ==
  IF n = 0 THEN -1
  ELSE LET high == PriceHigh(cands, n - 1) IN
       IF cands[n].high > high THEN cands[n].high ELSE high

\* candleProcessor: `if (data.price.low < 0 || c.low < data.price.low)
\* data.price.low = c.low` over the first n candles, from newBucketData's -1.
RECURSIVE PriceLow(_, _)
PriceLow(cands, n) ==
  IF n = 0 THEN -1
  ELSE LET low == PriceLow(cands, n - 1) IN
       IF low < 0 \/ cands[n].low < low THEN cands[n].low ELSE low

\* A faulty variant: a backfilled bucket keeps newBucketData's dataPoints.
DataPointsBlank(missingData, n) ==
  IF missingData THEN 0 ELSE n

\* candleProcessor: `data.dataPoints = missingData ? 1 : candles.length`.
DataPoints(missingData, n) ==
  IF missingData THEN 1 ELSE n

\* candleProcessor: totalDiff, totalClose and totalVolume over the first n
\* candles.
RECURSIVE Totals(_, _)
Totals(cands, n) ==
  IF n = 0 THEN [diff |-> 0, close |-> 0, volume |-> 0]
  ELSE LET t == Totals(cands, n - 1) IN
       [diff |-> t.diff + (cands[n].high - cands[n].low),
        close |-> t.close + cands[n].close,
        volume |-> t.volume + cands[n].volume]

\* An average, total / count, kept as its two numbers; a number x is x / 1.
Avg(total, count) ==
  [total |-> total, count |-> count]

\* candleProcessor: price.diffAvg, price.closeAvg and volume.avg; `if data
\* was missing, fill it in with 0s`.
Averages(cands, missingData) ==
  LET t == Totals(cands, Len(cands)) IN
  [diffAvg |-> IF missingData THEN Avg(0, 1) ELSE Avg(t.diff, Len(cands)),
   closeAvg |-> IF missingData THEN Avg(cands[1].close, 1)
                ELSE Avg(t.close, Len(cands)),
   volumeAvg |-> IF missingData THEN Avg(0, 1) ELSE Avg(t.volume, Len(cands))]

\* candleProcessor: data.lastCandle, from `c0 = candles[0]`.
LastCandle(c0, missingData) ==
  [close |-> c0.close,
   low |-> IF missingData THEN c0.close ELSE c0.low,
   high |-> IF missingData THEN c0.close ELSE c0.high,
   volume |-> IF missingData THEN 0 ELSE c0.volume]

\* candleProcessor, one bucket: the compiled data of the candles cands; the
\* close is that of `c0 = candles[0]`, the newest candle of the bucket.
Compile(timestamp, cands, missingData) ==
  [timestampISO |-> timestamp,
   dataPoints |-> DataPoints(missingData, Len(cands)),
   high |-> PriceHigh(cands, Len(cands)),
   low |-> PriceLow(cands, Len(cands)),
   close |-> cands[1].close,
   avg |-> Averages(cands, missingData),
   lastCandle |-> LastCandle(cands[1], missingData)]

\* candleProcessor(candleBuckets), from bucket i on: an empty bucket is
\* backfilled with the candles findPrev gives, or left out.
RECURSIVE candleProcessor(_, _)
candleProcessor(cb, i) ==
  IF i > Len(cb) THEN <<>>
  ELSE LET missingData == Len(cb[i].candles) = 0
           prev == findPrev(cb, i)
       IN (IF ~missingData
             THEN <<Compile(cb[i].timestampISO, cb[i].candles, FALSE)>>
           ELSE IF prev # 0
             THEN <<Compile(cb[i].timestampISO, cb[prev].candles, TRUE)>>
           ELSE <<>>)
          \o candleProcessor(cb, i + 1)

\* data.sort((a, b) => (a.timestampISO < b.timestampISO ? -1 : 1)).
RECURSIVE SortData(_)
SortData(data) ==
  IF Len(data) = 0 THEN <<>>
  ELSE LET m == CHOOSE i \in 1..Len(data) :
                  \A j \in 1..Len(data) :
                    \/ data[i].timestampISO < data[j].timestampISO
                    \/ (data[i].timestampISO = data[j].timestampISO /\ i <= j)
       IN <<data[m]>> \o
          SortData([k \in 1..(Len(data) - 1) |->
                     IF k < m THEN data[k] ELSE data[k + 1]])

\* createBucketData(candles, opts): OLDEST to NEWEST.
createBucketData(cands, end, per, total) ==
  SortData(candleProcessor(Reverse(createCandleBuckets(cands, end, per, total)), 1))

\* The inputs of one createBucketData call: an ascending list of the
\* provider's candles, the end of the options (the open time of the newest
\* candle in ProductData.update, any time around it here) and the bucket
\* options.
BucketInit ==
  /\ SchedInit /\ configOk
  /\ CandleIdle
  /\ CrossIdle
  /\ SortIdle
  /\ UpdIdle
  /\ NtfIdle
  /\ CfgIdle
  /\ IndIdle
  /\ CycIdle
  /\ CallIdle
  /\ \E f \in [Slots -> Quotes \cup {NoCandle}] : bucketCandles = CandlesOf(f)
  /\ optsEnd \in ((MaxSlots - 1) * CandleSize)..((MaxSlots + 1) * CandleSize)
  /\ candlesPer \in 2..MaxCandlesPer
  /\ totalBuckets \in 1..MaxBuckets
  /\ bucketData = <<>>
  /\ bucketErrs = 0
  /\ bucketPc = "given"

\* ProductData.createBuckets: `return createBucketData(candles, opts)`.
BucketBuild ==
  /\ bucketPc = "given"
  /\ bucketData' =
       createBucketData(bucketCandles, optsEnd, candlesPer, totalBuckets)
  /\ bucketErrs' =
       coreErrCalls(bucketCandles, optsEnd, candlesPer, totalBuckets)
  /\ bucketPc' = "built"
  /\ UNCHANGED <<bucketCandles, optsEnd, candlesPer, totalBuckets>>
  /\ UNCHANGED <<schedVars, candleVars, crossVars, sortVars, updVars, ntfVars, cfgVars, indVars, cycVars, callVars>>

BucketNext ==
  BucketBuild

BucketSpec ==
  BucketInit /\ [][BucketNext]_vars

\* The inputs of one createBucketData call on a list with gaps: an ascending
\* list of candles, some slots without one, the end of the options around
\* the newest slot and the bucket options (opts.bucket.total is
\* MAX_DAYS_OF_DATA of the environment, any number from 0).
GapInit ==
  /\ SchedInit /\ configOk
  /\ CandleIdle
  /\ CrossIdle
  /\ SortIdle
  /\ UpdIdle
  /\ NtfIdle
  /\ CfgIdle
  /\ IndIdle
  /\ CycIdle
  /\ CallIdle
  /\ \E f \in [GapSlots -> 0..MaxClose] : bucketCandles = GapCandlesOf(f)
  /\ optsEnd \in
       ((MaxGapSlots - 1) * CandleSize)..((MaxGapSlots + 1) * CandleSize)
  /\ candlesPer \in 2..MaxCandlesPer
  /\ totalBuckets \in 0..MaxGapBuckets
  /\ bucketData = <<>>
  /\ bucketErrs = 0
  /\ bucketPc = "given"

GapSpec ==
  GapInit /\ [][BucketNext]_vars

\* =========================================================================
\* Part 4 - the cross analysis of one product.
\* =========================================================================
\* The values a moving average is drawn from: not set (0), the sentinel of a
\* value that could not be computed (-1), or a positive mean of closes.
MaVals ==
  (0 - 1)..MaxMa

MAValues ==
  [twelve : MaVals, twentysix : MaVals, fifty : MaVals, twohundred : MaVals]

\* The window pairs that checkMA compares, in its order.
Checks ==
  <<[low |-> 12, high |-> 26], [low |-> 12, high |-> 50],
    [low |-> 26, high |-> 50], [low |-> 26, high |-> 200],
    [low |-> 50, high |-> 200]>>

\* The value of the window of n closes in the values v.
Window(v, n) ==
  CASE n = 12 -> v.twelve
    [] n = 26 -> v.twentysix
    [] n = 50 -> v.fifty
    [] OTHER -> v.twohundred

\* A faulty variant of cross: only a ratio above 1 counts as crossed.
crossStrict(l1, l2, c1, c2) ==
  IF l1 <= 0 \/ l2 <= 0 \/ c1 <= 0 \/ c2 <= 0 THEN "none"
  ELSE IF l1 < l2 /\ c1 > c2 THEN "golden"
  ELSE IF l1 > l2 /\ c1 < c2 THEN "death"
  ELSE "none"

\* cross(l1, l2, c1, c2).  For positive values l1 / l2 < 1 is l1 < l2.
cross(l1, l2, c1, c2) ==
  IF l1 <= 0 \/ l2 <= 0 \/ c1 <= 0 \/ c2 <= 0 THEN "none"
  ELSE IF l1 < l2 /\ c1 >= c2 THEN "golden"
  ELSE IF l1 >= l2 /\ c1 < c2 THEN "death"
  ELSE "none"

\* `!value` of JavaScript on a moving-average value.
Not(value) ==
  value = 0

\* `if (change !== 'none') res.x = change`: the field stays unset otherwise.
Field(change) ==
  IF change = "none" THEN "unset" ELSE change

\* `const res: CrossResults = {}`.
NoCross ==
  [twelve26 |-> "unset", twelve50 |-> "unset", twentysix50 |-> "unset",
   twentysix200 |-> "unset", fifty200 |-> "unset"]

\* A faulty variant of checkMA: nothing is returned before the last check.
checkMALate(l, c) ==
  IF Not(l.twelve) \/ Not(l.twentysix) \/ Not(c.twelve) \/ Not(c.twentysix)
     \/ Not(l.fifty) \/ Not(c.fifty) \/ Not(l.twohundred) \/ Not(c.twohundred)
    THEN NoCross
    ELSE [twelve26 |-> Field(cross(l.twelve, l.twentysix, c.twelve, c.twentysix)),
          twelve50 |-> Field(cross(l.twelve, l.fifty, c.twelve, c.fifty)),
          twentysix50 |->
            Field(cross(l.twentysix, l.fifty, c.twentysix, c.fifty)),
          twentysix200 |->
            Field(cross(l.twentysix, l.twohundred, c.twentysix, c.twohundred)),
          fifty200 |->
            Field(cross(l.fifty, l.twohundred, c.fifty, c.twohundred))]

\* checkMA(l, c): the checks in their order, with a `return res` as soon as
\* a value of the next checks is not set.
checkMA(l, c) ==
  IF Not(l.twelve) \/ Not(l.twentysix) \/ Not(c.twelve) \/ Not(c.twentysix)
    THEN NoCross
  ELSE
    LET r1 == [NoCross EXCEPT
                 !.twelve26 =
                   Field(cross(l.twelve, l.twentysix, c.twelve, c.twentysix))]
    IN
    IF Not(l.fifty) \/ Not(c.fifty) THEN r1
    ELSE
      LET r2 == [r1 EXCEPT
                   !.twelve50 =
                     Field(cross(l.twelve, l.fifty, c.twelve, c.fifty)),
                   !.twentysix50 =
                     Field(cross(l.twentysix, l.fifty, c.twentysix, c.fifty))]
      IN
      IF Not(l.twohundred) \/ Not(c.twohundred) THEN r2
      ELSE [r2 EXCEPT
              !.twentysix200 =
                Field(cross(l.twentysix, l.twohundred,
                            c.twentysix, c.twohundred)),
              !.fifty200 =
                Field(cross(l.fifty, l.twohundred, c.fifty, c.twohundred))]

\* crossToText(pId, ch, low, high, ma): the text names the two windows, the
\* moving average and the kind of the cross.
crossToText(ch, low, high, ma) ==
  [low |-> low, high |-> high, ma |-> ma, ch |-> ch]

\* convertCross(pId, x, ma): one text per field of x that is set.
convertCross(x, ma) ==
  (IF x.twelve26 # "unset"
     THEN <<crossToText(x.twelve26, 12, 26, ma)>> ELSE <<>>) \o
  (IF x.twelve50 # "unset"
     THEN <<crossToText(x.twelve50, 12, 50, ma)>> ELSE <<>>) \o
  (IF x.twentysix50 # "unset"
     THEN <<crossToText(x.twentysix50, 26, 50, ma)>> ELSE <<>>) \o
  (IF x.twentysix200 # "unset"
     THEN <<crossToText(x.twentysix200, 26, 200, ma)>> ELSE <<>>) \o
  (IF x.fifty200 # "unset"
     THEN <<crossToText(x.fifty200, 50, 200, ma)>> ELSE <<>>)

\* crossAnalysis(data, ma).
crossAnalysis(last, current, ma) ==
  IF ~last.defined \/ ~current.defined THEN <<>>
  ELSE IF ma = "SMA" THEN convertCross(checkMA(last.sma, current.sma), ma)
  ELSE convertCross(checkMA(last.ema, current.ema), ma)

\* The two rankings of a product after an update: none yet, the first one, or
\* the last and the current one.  The EMA values of the two rankings are the
\* SMA values in the opposite order, so the two passes of the analysis see
\* opposite transitions.
CrossInit ==
  /\ SchedInit /\ configOk
  /\ CandleIdle
  /\ BucketIdle
  /\ SortIdle
  /\ UpdIdle
  /\ NtfIdle
  /\ CfgIdle
  /\ IndIdle
  /\ CycIdle
  /\ CallIdle
  /\ \E a \in MAValues, b \in MAValues, hasLast \in BOOLEAN :
       /\ currentR = [defined |-> TRUE, sma |-> b, ema |-> a]
       /\ lastR = IF hasLast THEN [defined |-> TRUE, sma |-> a, ema |-> b]
                  ELSE NoRankingYet
  /\ crossMsgs = <<>>
  /\ crossPc = "ranked"

\* doAnalysis, for one product: `let ma = crossAnalysis(pData, 'SMA');
\* ma = ma.concat(crossAnalysis(pData, 'EMA'));`
CrossAnalyse ==
  /\ crossPc = "ranked"
  /\ crossMsgs' = crossAnalysis(lastR, currentR, "SMA") \o
                  crossAnalysis(lastR, currentR, "EMA")
  /\ crossPc' = "analysed"
  /\ UNCHANGED <<lastR, currentR>>
  /\ UNCHANGED <<schedVars, candleVars, bucketVars, sortVars, updVars, ntfVars, cfgVars, indVars, cycVars, callVars>>

CrossNext ==
  CrossAnalyse

CrossSpec ==
  CrossInit /\ [][CrossNext]_vars

\* =========================================================================
\* Part 5 - the ranking filter.  A ranking is modelled by the fields that
\* sortRankings reads or writes.
\* =========================================================================
\* The ratios and the movement of a drawn ranking: each is 2 (above 1) or 1
\* (not above 1), and at most one of them is not above 1.
RatioProfiles ==
  {p \in [close : {1, 2}, diff : {1, 2}, volume : {1, 2}, movement : {1, 2}] :
     Cardinality({f \in {"close", "diff", "volume", "movement"} : p[f] = 1}) <= 1}

\* The ranking of product id with the ratios p, the rating and the RSI given;
\* `ranking: -1` as makeRanking leaves it.
Ranking(id, p, rating, rsi) ==
  [productId |-> id,
   ranking |-> 0 - 1,
   movement |-> p.movement,
   indicators |-> [rsi |-> rsi],
   ratio |-> [rating |-> rating, close |-> p.close, diff |-> p.diff,
              volume |-> p.volume]]

\* A faulty variant of the movement filter: a movement of 1 passes.
MovementAtLeastOne(r) ==
  r.movement >= 1

\* `(r) => r.movement > 1`.
MovementAboveOne(r) ==
  r.movement > 1

CloseAboveOne(r) ==
  r.ratio.close > 1

DiffAboveOne(r) ==
  r.ratio.diff > 1

VolumeAboveOne(r) ==
  r.ratio.volume > 1

\* sortRankings, the four filters (Array.prototype.filter), each applied
\* when its flag is set.
FilterFlags(list, filter) ==
  LET s1 == IF filter.close THEN SelectSeq(list, CloseAboveOne) ELSE list
      s2 == IF filter.diff THEN SelectSeq(s1, DiffAboveOne) ELSE s1
      s3 == IF filter.volume THEN SelectSeq(s2, VolumeAboveOne) ELSE s2
  IN IF filter.movement THEN SelectSeq(s3, MovementAboveOne) ELSE s3

\* A faulty variant of the comparator: equal ratings count as "a first".
compareTiesFirst(a, b) ==
  IF a.ratio.rating >= b.ratio.rating THEN 0 - 1 ELSE 1

\* `(a, b) => (a.ratio.rating > b.ratio.rating ? -1 : 1)`.
compare(a, b) ==
  IF a.ratio.rating > b.ratio.rating THEN 0 - 1 ELSE 1

\* Array.prototype.sort of the runtime (V8) on an array shorter than its
\* minimal run length: the first run is counted, reversed when it descends
\* strictly by the comparator, and the other elements are put in place by
\* binary insertion.
\* The length of the first run of s: 1-based position of its last element.
RECURSIVE RunEnd(_, _, _)
RunEnd(s, at, isDescending) ==
  IF at > Len(s) THEN Len(s)
  ELSE LET order == compare(s[at], s[at - 1]) IN
       IF (isDescending /\ order >= 0) \/ (~isDescending /\ order < 0)
         THEN at - 1
         ELSE RunEnd(s, at + 1, isDescending)

\* s with its first n elements in reverse order.
ReverseRange(s, n) ==
  [i \in 1..Len(s) |-> IF i <= n THEN s[n + 1 - i] ELSE s[i]]

\* The place of pivot among s[left .. right - 1]: `order < 0` moves the
\* right end to the middle, any other order moves the left end past it.
RECURSIVE BinarySearch(_, _, _, _)
BinarySearch(s, pivot, left, right) ==
  IF left >= right THEN left
  ELSE LET mid == left + ((right - left) \div 2) IN
       IF compare(pivot, s[mid]) < 0
         THEN BinarySearch(s, pivot, left, mid)
         ELSE BinarySearch(s, pivot, mid + 1, right)

\* s[start] moved to position left, the elements in between moved up by one.
MoveTo(s, start, left) ==
  [i \in 1..Len(s) |->
     IF i < left \/ i > start THEN s[i]
     ELSE IF i = left THEN s[start]
     ELSE s[i - 1]]

\* Binary insertion of the elements from position start on.
RECURSIVE BinaryInsertionSort(_, _)
BinaryInsertionSort(s, start) ==
  IF start > Len(s) THEN s
  ELSE BinaryInsertionSort(
         MoveTo(s, start, BinarySearch(s, s[start], 1, start)), start + 1)

\* `s.sort((a, b) => (a.ratio.rating > b.ratio.rating ? -1 : 1))`.
Sort(s) ==
  IF Len(s) < 2 THEN s
  ELSE LET isDescending == compare(s[2], s[1]) < 0
           runLength == RunEnd(s, 3, isDescending)
           run == IF isDescending THEN ReverseRange(s, runLength) ELSE s
       IN BinaryInsertionSort(run, runLength + 1)

\* `if (filter.count && filter.count > 0) s = s.slice(0, filter.count)`.
Slice(s, count) ==
  IF count # 0 /\ count > 0
    THEN SubSeq(s, 1, IF count < Len(s) THEN count ELSE Len(s))
    ELSE s

\* `for (let i = 0; i < s.length; i++) s[i].ranking = i + 1`.
Rank(s) ==
  [i \in 1..Len(s) |-> [s[i] EXCEPT !.ranking = i]]

\* sortRankings(rankings, filter).
sortRankings(list, filter) ==
  Rank(Slice(Sort(FilterFlags(list, filter)), filter.count))

\* The rankings of State.currentRankings and the filter of a call: products
\* 1..n with drawn ratios and ratings, every flag drawn, and a count that is
\* not set (0), negative, or up to one more than the number of rankings.
SortInit ==
  /\ SchedInit /\ configOk
  /\ CandleIdle
  /\ BucketIdle
  /\ CrossIdle
  /\ UpdIdle
  /\ NtfIdle
  /\ CfgIdle
  /\ IndIdle
  /\ CycIdle
  /\ CallIdle
  /\ \E n \in 0..MaxRecords :
       \E p \in [1..n -> RatioProfiles], g \in [1..n -> 1..MaxRating] :
         unsorted = [i \in 1..n |-> Ranking(i, p[i], g[i], RSI_OVERSOLD)]
  /\ \E c \in (0 - 1)..(MaxRecords + 1), f \in [{"close", "diff", "volume", "movement"} -> BOOLEAN] :
       sortFilter = [NoFilter EXCEPT !.count = c, !.close = f["close"],
                       !.diff = f["diff"], !.volume = f["volume"],
                       !.movement = f["movement"]]
  /\ sorted = <<>>
  /\ resorted = <<>>
  /\ sortPc = "unsorted"

\* State.getSortedRankings(): `return sortRankings(rankings, filterOverride)`.
SortRankings ==
  /\ sortPc = "unsorted"
  /\ sorted' = sortRankings(unsorted, sortFilter)
  /\ sortPc' = "sorted"
  /\ UNCHANGED <<unsorted, sortFilter, resorted>>
  /\ UNCHANGED <<schedVars, candleVars, bucketVars, crossVars, updVars, ntfVars, cfgVars, indVars, cycVars, callVars>>

\* sortRankings called with the list it returned and the same filter.
SortAgain ==
  /\ sortPc = "sorted"
  /\ resorted' = sortRankings(sorted, sortFilter)
  /\ sortPc' = "resorted"
  /\ UNCHANGED <<unsorted, sortFilter, sorted>>
  /\ UNCHANGED <<schedVars, candleVars, bucketVars, crossVars, updVars, ntfVars, cfgVars, indVars, cycVars, callVars>>

SortNext ==
  \/ SortRankings
  \/ SortAgain

SortSpec ==
  SortInit /\ [][SortNext]_vars

\* The RSI of a drawn ranking: at a threshold or next to it.
RsiVals ==
  {RSI_OVERSOLD - 1, RSI_OVERSOLD, RSI_OVERBOUGHT, RSI_OVERBOUGHT + 1}

\* Rankings with drawn RSI and rating, all ratios above 1, and a filter in
\* which State.updateFilter has stored drawn `overbought` and `oversold`
\* flags and a drawn count.
RsiInit ==
  /\ SchedInit /\ configOk
  /\ CandleIdle
  /\ BucketIdle
  /\ CrossIdle
  /\ UpdIdle
  /\ NtfIdle
  /\ CfgIdle
  /\ IndIdle
  /\ CycIdle
  /\ CallIdle
  /\ \E n \in 0..MaxRecords :
       \E x \in [1..n -> RsiVals], g \in [1..n -> 1..MaxRating] :
         unsorted =
           [i \in 1..n |->
              Ranking(i, [close |-> 2, diff |-> 2, volume |-> 2, movement |-> 2],
                      g[i], x[i])]
  /\ \E c \in (0 - 1)..(MaxRecords + 1), ob \in BOOLEAN, os \in BOOLEAN :
       sortFilter = [NoFilter EXCEPT !.count = c, !.overbought = ob,
                       !.oversold = os]
  /\ sorted = <<>>
  /\ resorted = <<>>
  /\ sortPc = "unsorted"

\* State.getSortedRankings() with the RSI flags of State.sortFilter.
RsiSpec ==
  RsiInit /\ [][SortNext]_vars

\* =========================================================================
\* Part 6 - one cycle of updateData against a provider that may fail.  Every
\* call of the provider (AnonymousClient) settles as a promise: resolved
\* with a value, or rejected with an error.  CandleDb is taken to answer.
\* A candle is again its open time, a multiple of CandleSize.
\* =========================================================================
Resolved(value) ==
  [rejected |-> FALSE, value |-> value]

Rejected(err) ==
  [rejected |-> TRUE, value |-> err]

\* What CandleDb may hold for a pair: its first n candles.
StoredLists ==
  {SortedList({i * CandleSize : i \in 1..n}) : n \in 0..MaxStored}

\* setLastTimestamp(candles): the open time of the last candle, the oldest
\* possible time without candles.
lastTimestamp(list, oldestISO) ==
  IF Len(list) = 0 THEN oldestISO ELSE list[Len(list)]

\* DataOpts.totalCandleCount with the bucket options of createDataOpts.
totalCandleCount ==
  MaxCandlesPer * MaxBuckets

\* DataOpts.start: the start of the cleaned span that ends at `end`.
optsStart(end) ==
  setToZero(Max(end - totalCandleCount * CandleSize, 0))

\* What the provider may resolve getCandles(productId, granularity, end,
\* start) with: the first candles that opened after start and not after end.
ProviderCandles(start, end) ==
  LET due == SortedList({t \in (start + 1)..end : t % CandleSize = 0}) IN
  {SubSeq(due, 1, n) : n \in 0..Len(due)}

\* getCandles: whether AnonymousClient.getCandles is called at all
\* (`if (timeDiffSec < opts.candle.granularity) return []`).
CandlesCalled(start, end) ==
  ~(setToZero(end) - start < CandleSize)

\* A faulty variant: the handler passes the rejection on.
getCandlesRethrow(err) ==
  Rejected(err)

\* getCandles: `.catch((err) => { coreErr(err); return []; })`.
getCandlesCatch(err) ==
  Resolved(<<>>)

\* getCandles(productId, opts, startOverride) with pullNew set, for the
\* answer of the provider.
getCandles(answer, start, end) ==
  IF ~CandlesCalled(start, end) THEN Resolved(<<>>)
  ELSE IF answer.rejected THEN getCandlesCatch(answer.value)
  ELSE Resolved(answer.value)

\* What the provider may resolve getOrderCount(productId) with.
OrderCounts ==
  {c \in [buys : 0..MaxOrders, sells : 0..MaxOrders] :
     c.sells = 0 \/ c.buys % c.sells = 0}

\* getMovement: `.catch((err) => { coreErr(err); return -1; })`.
getMovementCatch(err) ==
  Resolved(0 - 1)

\* ProductData.getMovement for the answer of the provider.
getMovement(answer) ==
  IF answer.rejected THEN getMovementCatch(answer.value)
  ELSE IF answer.value.sells = 0 THEN Resolved(answer.value.buys)
  ELSE Resolved(answer.value.buys \div answer.value.sells)

\* The candle that opens at t, as the bucket aggregator reads it.
CandleAt(t) ==
  [openTimeInISO |-> t, high |-> MaxPrice, low |-> 0, close |-> MaxPrice,
   volume |-> 1]

\* ProductData.createBuckets(candles, opts).
createBuckets(list, end) ==
  IF Len(list) = 0 THEN <<>>
  ELSE createBucketData([i \in 1..Len(list) |-> CandleAt(list[i])], end,
                        MaxCandlesPer, MaxBuckets)

\* sum(data.map((d) => d.dataPoints)).
RECURSIVE sumDataPoints(_)
sumDataPoints(data) ==
  IF Len(data) = 0 THEN 0
  ELSE data[1].dataPoints + sumDataPoints(Tail(data))

\* makeRanking: the quotient a / avg, kept as the two numbers of the
\* fraction; d is 0 when the division is one by zero.
Ratio(a, avg) ==
  [n |-> a * avg.count, d |-> avg.total]

\* makeRanking: closeRatio, volumeRatio and diffRatio, from
\* `last = data[data.length - 1]`.
Ratios(data) ==
  LET last == data[Len(data)] IN
  [close |-> Ratio(last.lastCandle.close, last.avg.closeAvg),
   volume |-> Ratio(last.lastCandle.volume, last.avg.volumeAvg),
   diff |-> Ratio(last.lastCandle.high - last.lastCandle.low,
                  last.avg.diffAvg)]

\* makeRanking(productId, buckets, ..., movement).
makeRanking(productId, data, movement) ==
  IF Len(data) = 0 THEN NoRank
  ELSE [defined |-> TRUE, productId |-> productId,
        dataPoints |-> sumDataPoints(data), movement |-> movement,
        ratio |-> Ratios(data)]

\* The state before a cycle: what CandleDb holds for each pair, and the end
\* of the configuration, the open time of the newest candle that may be
\* stored or the one after it.
UpdInit ==
  /\ SchedInit /\ configOk
  /\ CandleIdle
  /\ BucketIdle
  /\ CrossIdle
  /\ SortIdle
  /\ NtfIdle
  /\ CfgIdle
  /\ IndIdle
  /\ CycIdle
  /\ CallIdle
  /\ dbCandles \in [Pairs -> StoredLists]
  /\ updEnd \in {MaxStored * CandleSize, (MaxStored + 1) * CandleSize}
  /\ updPc = "products"
  /\ updI = 0
  /\ updLocals = NoLocals
  /\ updRankings = NoRankings
  /\ coreErrs = {}

\* updateData: `await updateProducts()` settles.  A rejection of
\* AnonymousClient.getProducts is caught and logged, and the products known
\* so far are the ones the loop goes over.
UpdProducts ==
  /\ updPc = "products"
  /\ \E rejects \in BOOLEAN :
       coreErrs' = IF rejects
                     THEN coreErrs \cup {<<0, "getProducts">>}
                     ELSE coreErrs
  /\ updPc' = "candles"
  /\ updI' = 1
  /\ UNCHANGED <<dbCandles, updEnd, updLocals, updRankings>>
  /\ UNCHANGED <<schedVars, candleVars, bucketVars, crossVars, sortVars, ntfVars, cfgVars, indVars, cycVars, callVars>>

\* ProductData.update up to `await this.getMovement()`: loadCandles,
\* setLastTimestamp, updateCandles (getCandles), CandleDb.saveCandles for new
\* candles, totalCandles, createBuckets.  An await of a rejected promise rejects update and
\* with it updateData, whose caller catches it.
UpdCandles ==
  /\ updPc = "candles"
  /\ LET old == dbCandles[updI]
         start == lastTimestamp(old, 0)
     IN \E rejects \in BOOLEAN, l \in ProviderCandles(start, updEnd) :
          LET answer == IF rejects THEN Rejected("err") ELSE Resolved(l)
              pulled == getCandles(answer, start, updEnd)
              new == pulled.value
              pulledNew == Len(new) > 0
              end == IF pulledNew THEN lastTimestamp(new, 0) ELSE updEnd
          IN IF pulled.rejected
               THEN /\ updPc' = "failed"
                    /\ UNCHANGED <<dbCandles, updLocals, coreErrs>>
               ELSE /\ updPc' = "movement"
                    /\ dbCandles' = [dbCandles EXCEPT ![updI] = old \o new]
                    /\ updLocals' =
                         [buckets |->
                            createBuckets(totalCandles(old, new,
                                                       optsStart(end),
                                                       totalCandleCount),
                                          end)]
                    /\ coreErrs' =
                         IF CandlesCalled(start, updEnd) /\ answer.rejected
                           THEN coreErrs \cup {<<updI, "getCandles">>}
                           ELSE coreErrs
  /\ UNCHANGED <<updEnd, updI, updRankings>>
  /\ UNCHANGED <<schedVars, candleVars, bucketVars, crossVars, sortVars, ntfVars, cfgVars, indVars, cycVars, callVars>>

\* ProductData.update from `await this.getMovement()` on: makeRanking; then updateData stores the record
\* (`if (update.data) State.setRanking(update.data)`) and goes on with the
\* next product, or leaves the loop.
UpdMovement ==
  /\ updPc = "movement"
  /\ \E rejects \in BOOLEAN, c \in OrderCounts :
       LET answer == IF rejects THEN Rejected("err") ELSE Resolved(c)
           movement == getMovement(answer)
           newRanking == makeRanking(updI, updLocals.buckets, movement.value)
       IN IF movement.rejected
            THEN /\ updPc' = "failed"
                 /\ UNCHANGED <<updI, updRankings, coreErrs>>
            ELSE /\ updRankings' =
                      IF newRanking.defined
                        THEN [updRankings EXCEPT ![updI] = newRanking]
                        ELSE updRankings
                 /\ coreErrs' = IF answer.rejected
                                  THEN coreErrs \cup {<<updI, "getOrderCount">>}
                                  ELSE coreErrs
                 /\ updPc' = IF updI < NumPairs THEN "candles" ELSE "done"
                 /\ updI' = IF updI < NumPairs THEN updI + 1 ELSE updI
  /\ updLocals' = NoLocals
  /\ UNCHANGED <<dbCandles, updEnd>>
  /\ UNCHANGED <<schedVars, candleVars, bucketVars, crossVars, sortVars, ntfVars, cfgVars, indVars, cycVars, callVars>>

UpdNext ==
  \/ UpdProducts
  \/ UpdCandles
  \/ UpdMovement

UpdateSpec ==
  UpdInit /\ [][UpdNext]_vars

\* =========================================================================
\* Part 7 - one cycle of updateData against a persistence layer and
\* notification channels that may fail.  A promise of this part settles
\* with a name ("msg", "undefined", "true", "false") or is rejected.
\* =========================================================================
\* The stages of updateData.
AllStages ==
  {"updateProducts", "update", "broadcastRanking", "sendRankings",
   "doAnalysis", "sendAnalysis", "broadcastMessage", "updateId"}

\* The outcomes of the calls that one DiscordBot.editNotification makes:
\* whether the message is fetched, the channel is fetched, the message is
\* sent, the configuration is saved, the message is edited.
DiscordOutcomes ==
  [message : BOOLEAN, channel : BOOLEAN, send : BOOLEAN, save : BOOLEAN,
   edit : BOOLEAN]

\* DiscordBot.getChannel: the channel, or undefined after discordErr.
getChannel(channelOk) ==
  IF channelOk THEN "channel" ELSE "undefined"

\* A faulty variant: the handler passes the error on.
sendNotificationRethrow(err) ==
  Rejected(err)

\* DiscordBot.sendNotification: `catch (err) { discordErr(...) }`, and then
\* `return msg` with msg still undefined.
sendNotificationCatch(err) ==
  Resolved("undefined")

\* DiscordBot.sendNotification(channelId, embed).
sendNotification(channelOk, sendOk) ==
  IF getChannel(channelOk) = "undefined" THEN Resolved("undefined")
  ELSE IF sendOk THEN Resolved("msg")
  ELSE sendNotificationCatch("err")

\* sendChanges(dataType, data, updateId): nothing is sent without data.
sendChanges(hasData, channelOk, sendOk) ==
  IF ~hasData THEN Resolved("undefined")
  ELSE sendNotification(channelOk, sendOk)

\* sendAnalysis(dataType, data, updateId): nothing is sent without data.
sendAnalysis(hasData, channelOk, sendOk) ==
  IF ~hasData THEN Resolved("undefined")
  ELSE sendNotification(channelOk, sendOk)

\* DiscordBot.saveConfig(): the promise of DiscordModel.updateOne.
saveConfig(saveOk) ==
  IF saveOk THEN Resolved("saved") ELSE Rejected("err")

\* DiscordBot.editNotification(channelId, messageId, embed): a message that
\* cannot be fetched is sent anew and the configuration is saved; an edit
\* that fails is logged and the message that was fetched is returned.
editNotification(o) ==
  IF ~o.message
    THEN IF saveConfig(o.save).rejected THEN Rejected("err")
         ELSE sendNotification(o.channel, o.send)
    ELSE Resolved("msg")

\* sendRankings(rankings, total, dataPoints, update): the edits of the
\* ranking messages (each with the outcomes o), then the edit of the guide
\* message.
sendRankings(o, guide) ==
  IF editNotification(o).rejected THEN Rejected("err")
  ELSE editNotification(guide)

\* CandleDb.saveCandles(productId, candles, true): false when the table is
\* missing and cannot be created, or when the INSERT fails.
saveCandles(tableExists, created, insertOk) ==
  IF ~tableExists /\ ~created THEN Resolved("false")
  ELSE IF insertOk THEN Resolved("true")
  ELSE Resolved("false")

\* EmitServer.broadcast(message) throws when the server is not initialized
\* or not enabled; a client that cannot be sent to does not make it throw.
broadcastThrows(socket, enabled) ==
  ~socket \/ ~enabled

\* The entry point before State.initWrapper has returned.
NtfInit ==
  /\ SchedInit /\ configOk
  /\ CandleIdle
  /\ BucketIdle
  /\ CrossIdle
  /\ SortIdle
  /\ UpdIdle
  /\ CfgIdle
  /\ IndIdle
  /\ CycIdle
  /\ CallIdle
  /\ ntfPc = "boot"
  /\ emitSocket = FALSE
  /\ emitEnabled = FALSE
  /\ ntfStages = {}
  /\ ntfFailures = {}
  /\ ntfDetached = {}
  /\ ntfUnhandled = {}
  /\ ntfCaught = FALSE

\* The entry point: EmitServer.init(), `await State.initWrapper(DATA_OPTS)`,
\* EmitServer.enable().  No timer runs between the end of initWrapper and
\* enable(), and nothing calls EmitServer.disable().
NtfBoot ==
  /\ ntfPc = "boot"
  /\ emitSocket' = TRUE
  /\ emitEnabled' = TRUE
  /\ ntfPc' = "idle"
  /\ UNCHANGED <<ntfStages, ntfFailures, ntfDetached, ntfUnhandled, ntfCaught>>
  /\ UNCHANGED <<schedVars, candleVars, bucketVars, crossVars, sortVars, updVars, cfgVars, indVars, cycVars, callVars>>

\* State.updateDataWrapper passes its guard and calls updateData.
NtfStart ==
  /\ ntfPc = "idle"
  /\ ntfPc' = "products"
  /\ ntfStages' = {}
  /\ ntfFailures' = {}
  /\ UNCHANGED <<emitSocket, emitEnabled, ntfDetached, ntfUnhandled, ntfCaught>>
  /\ UNCHANGED <<schedVars, candleVars, bucketVars, crossVars, sortVars, updVars, cfgVars, indVars, cycVars, callVars>>

\* updateProducts after the provider has answered: with changes, the
\* broadcasts to the push feed and `await sendChanges(...)`.
NtfProducts ==
  /\ ntfPc = "products"
  /\ \E hasData \in BOOLEAN, channelOk \in BOOLEAN, sendOk \in BOOLEAN :
       LET sent == sendChanges(hasData, channelOk, sendOk) IN
       IF (hasData /\ broadcastThrows(emitSocket, emitEnabled)) \/ sent.rejected
         THEN /\ ntfPc' = "failed"
              /\ UNCHANGED <<ntfStages, ntfFailures>>
         ELSE /\ ntfPc' = "update"
              /\ ntfStages' = ntfStages \cup {"updateProducts"}
              /\ ntfFailures' =
                   IF hasData /\ sent.value = "undefined"
                     THEN ntfFailures \cup {"sendChanges"}
                     ELSE ntfFailures
  /\ UNCHANGED <<emitSocket, emitEnabled, ntfDetached, ntfUnhandled, ntfCaught>>
  /\ UNCHANGED <<schedVars, candleVars, bucketVars, crossVars, sortVars, updVars, cfgVars, indVars, cycVars, callVars>>

\* ProductData.update: `await CandleDb.saveCandles(...)` for new candles;
\* what it resolves with is not read.
NtfUpdate ==
  /\ ntfPc = "update"
  /\ \E pulledNew \in BOOLEAN, tableExists \in BOOLEAN, created \in BOOLEAN,
        insertOk \in BOOLEAN :
       LET saved == saveCandles(tableExists, created, insertOk) IN
       IF pulledNew /\ saved.rejected
         THEN /\ ntfPc' = "failed"
              /\ UNCHANGED <<ntfStages, ntfFailures>>
         ELSE /\ ntfPc' = "publish"
              /\ ntfStages' = ntfStages \cup {"update"}
              /\ ntfFailures' =
                   IF pulledNew /\ saved.value = "false"
                     THEN ntfFailures \cup {"saveCandles"}
                     ELSE ntfFailures
  /\ UNCHANGED <<emitSocket, emitEnabled, ntfDetached, ntfUnhandled, ntfCaught>>
  /\ UNCHANGED <<schedVars, candleVars, bucketVars, crossVars, sortVars, updVars, cfgVars, indVars, cycVars, callVars>>

\* updateData from "Send the updated rankings to the websocket" to its
\* return, which has no await: the broadcast of the rankings, sendRankings
\* (not awaited), doAnalysis, sendAnalysis (not awaited, and called when
\* there are messages), the broadcast of the message, State.updateId.
NtfPublish ==
  /\ ntfPc = "publish"
  /\ \E hasData \in BOOLEAN :
       IF broadcastThrows(emitSocket, emitEnabled)
         THEN /\ ntfPc' = "failed"
              /\ UNCHANGED <<ntfStages, ntfDetached>>
         ELSE /\ ntfPc' = "complete"
              /\ ntfStages' = ntfStages \cup
                   {"broadcastRanking", "sendRankings", "doAnalysis",
                    "sendAnalysis", "broadcastMessage", "updateId"}
              /\ ntfDetached' = ntfDetached \cup {"sendRankings"} \cup
                   (IF hasData THEN {"sendAnalysis"} ELSE {})
  /\ UNCHANGED <<emitSocket, emitEnabled, ntfFailures, ntfUnhandled, ntfCaught>>
  /\ UNCHANGED <<schedVars, candleVars, bucketVars, crossVars, sortVars, updVars, cfgVars, indVars, cycVars, callVars>>

\* A promise that updateData did not await settles; its rejection is
\* handled by nobody.
NtfSettle(d) ==
  /\ d \in ntfDetached
  /\ ntfDetached' = ntfDetached \ {d}
  /\ \E o \in DiscordOutcomes, guide \in DiscordOutcomes :
       LET sent == IF d = "sendRankings" THEN sendRankings(o, guide)
                   ELSE sendAnalysis(TRUE, o.channel, o.send)
       IN /\ ntfUnhandled' = IF sent.rejected THEN ntfUnhandled \cup {d}
                             ELSE ntfUnhandled
          /\ ntfFailures' = IF sent.rejected \/ sent.value = "undefined"
                              THEN ntfFailures \cup {d}
                              ELSE ntfFailures
  /\ UNCHANGED <<ntfPc, emitSocket, emitEnabled, ntfStages, ntfCaught>>
  /\ UNCHANGED <<schedVars, candleVars, bucketVars, crossVars, sortVars, updVars, cfgVars, indVars, cycVars, callVars>>

\* State.updateDataWrapper: updateData has settled; `.catch` logs a
\* rejection ("could not update data") and `.finally` clears the guard.
NtfWrapperEnds ==
  /\ ntfPc \in {"complete", "failed"}
  /\ ntfCaught' = (ntfCaught \/ ntfPc = "failed")
  /\ ntfPc' = "idle"
  /\ UNCHANGED <<emitSocket, emitEnabled, ntfStages, ntfFailures, ntfDetached,
                 ntfUnhandled>>
  /\ UNCHANGED <<schedVars, candleVars, bucketVars, crossVars, sortVars, updVars, cfgVars, indVars, cycVars, callVars>>

NtfNext ==
  \/ NtfBoot
  \/ NtfStart
  \/ NtfProducts
  \/ NtfUpdate
  \/ NtfPublish
  \/ \E d \in {"sendRankings", "sendAnalysis"} : NtfSettle(d)
  \/ NtfWrapperEnds

NotifySpec ==
  NtfInit /\ [][NtfNext]_vars

\* =========================================================================
\* Part 8 - start-up with a configuration.  The configuration is the candle
\* size in minutes, the number of candles between two updates and the
\* number of candles per bucket.
\* =========================================================================
Configs ==
  [mCandleSize : 0..MaxCandleMin, frequency : 1..MaxFrequency,
   candlesPer : 0..MaxCandlesPer]

\* `60 % n !== 0` for a number n >= 0 (60 % 0 is NaN).
NotDivisibleBy60(n) ==
  n = 0 \/ 60 % n # 0

\* The DataOpts constructor throws:
\* `if (60 % updateFrequency !== 0) throw new Error(...)`.
DataOptsThrows(c) ==
  NotDivisibleBy60(c.frequency * c.mCandleSize)

\* A faulty variant: the bucket size is not looked at.
StateThrowsNoBucket(c) ==
  NotDivisibleBy60(c.mCandleSize) \/ c.mCandleSize > 60

\* The State constructor throws.
StateThrows(c) ==
  \/ NotDivisibleBy60(c.mCandleSize)
  \/ c.mCandleSize > 60
  \/ c.candlesPer < 2

\* The process is started with some configuration.
CfgInit ==
  /\ SchedInit /\ configOk
  /\ CandleIdle
  /\ BucketIdle
  /\ CrossIdle
  /\ SortIdle
  /\ UpdIdle
  /\ NtfIdle
  /\ IndIdle
  /\ CycIdle
  /\ CallIdle
  /\ cfg \in Configs
  /\ cfgPc = "load"
  /\ cfgThrown = "none"
  /\ cfgScheduled = FALSE
  /\ cfgCycles = 0

\* The entry point is loaded: `const DATA_OPTS = new DataOpts(...)`.  An
\* exception here is caught by nobody and ends the process.
CfgLoad ==
  /\ cfgPc = "load"
  /\ IF DataOptsThrows(cfg)
       THEN /\ cfgThrown' = "DataOpts"
            /\ cfgPc' = "exited"
       ELSE /\ cfgPc' = "boot"
            /\ UNCHANGED cfgThrown
  /\ UNCHANGED <<cfg, cfgScheduled, cfgCycles>>
  /\ UNCHANGED <<schedVars, candleVars, bucketVars, crossVars, sortVars, updVars, ntfVars, indVars, cycVars, callVars>>

\* State.initWrapper and initState up to its first await: `new State(opts)`,
\* then schedule(cronSchedule, State.updateDataWrapper).  An exception of the
\* constructor rejects initState and reaches the catch handler of the entry
\* point, which calls killAll.
CfgInitState ==
  /\ cfgPc = "boot"
  /\ IF StateThrows(cfg)
       THEN /\ cfgThrown' = "State"
            /\ cfgPc' = "exiting"
            /\ UNCHANGED cfgScheduled
       ELSE /\ cfgScheduled' = TRUE
            /\ cfgPc' = "init"
            /\ UNCHANGED cfgThrown
  /\ UNCHANGED <<cfg, cfgCycles>>
  /\ UNCHANGED <<schedVars, candleVars, bucketVars, crossVars, sortVars, updVars, ntfVars, indVars, cycVars, callVars>>

\* initState returns, the entry point starts its servers.
CfgInitDone ==
  /\ cfgPc = "init"
  /\ cfgPc' = "serving"
  /\ UNCHANGED <<cfg, cfgThrown, cfgScheduled, cfgCycles>>
  /\ UNCHANGED <<schedVars, candleVars, bucketVars, crossVars, sortVars, updVars, ntfVars, indVars, cycVars, callVars>>

\* node-cron calls State.updateDataWrapper and a cycle starts (a call made
\* while initState runs finds State.updating set).
CfgCycle ==
  /\ cfgScheduled
  /\ cfgPc = "serving"
  /\ cfgCycles < MaxTriggers
  /\ cfgCycles' = cfgCycles + 1
  /\ UNCHANGED <<cfg, cfgPc, cfgThrown, cfgScheduled>>
  /\ UNCHANGED <<schedVars, candleVars, bucketVars, crossVars, sortVars, updVars, ntfVars, indVars, cycVars, callVars>>

\* killAll ends with process.exit().
CfgKillAll ==
  /\ cfgPc = "exiting"
  /\ cfgPc' = "exited"
  /\ UNCHANGED <<cfg, cfgThrown, cfgScheduled, cfgCycles>>
  /\ UNCHANGED <<schedVars, candleVars, bucketVars, crossVars, sortVars, updVars, ntfVars, indVars, cycVars, callVars>>

CfgNext ==
  \/ CfgLoad
  \/ CfgInitState
  \/ CfgInitDone
  \/ CfgCycle
  \/ CfgKillAll

ConfigSpec ==
  CfgInit /\ [][CfgNext]_vars

\* =========================================================================
\* Part 9 - the indicators of one product: sma, ema, calcMACD, calcRSI and
\* ProductData.createIndicators, applied to drawn lists of bucket closes.
\*
\* A number is the fraction n / d in lowest terms with d > 0, so that a mean
\* and the smoothing factor 2 / (mRange + 1) are exact; the rounding of
\* IEEE doubles is not modelled.  NaN is the fraction 0 / 0.  An optional
\* number (`number | undefined`) is a tuple of at most one number, and so is
\* an optional `format` callback: <<>> when it is not given, <<dec>> for
\* formatQuote of a product whose quote increment has dec decimals.
\* =========================================================================
Abs(i) ==
  IF i < 0 THEN 0 - i ELSE i

RECURSIVE Gcd(_, _)
Gcd(a, b) ==
  IF b = 0 THEN a ELSE Gcd(b, a % b)

\* The number n / d, for d # 0.
Num(n, d) ==
  LET g == Gcd(Abs(n), Abs(d))
      s == IF d < 0 THEN 0 - 1 ELSE 1
  IN  [n |-> (s * n) \div g, d |-> (s * d) \div g]

Whole(i) ==
  [n |-> i, d |-> 1]

NaN ==
  [n |-> 0, d |-> 0]

plus(a, b) ==
  Num(a.n * b.d + b.n * a.d, a.d * b.d)

minus(a, b) ==
  Num(a.n * b.d - b.n * a.d, a.d * b.d)

times(a, b) ==
  Num(a.n * b.n, a.d * b.d)

\* a / b for b # 0.
over(a, b) ==
  Num(a.n * b.d, a.d * b.n)

\* `!value` of JavaScript on a number: 0 and NaN.
IsFalsy(value) ==
  value.n = 0

RECURSIVE Pow10(_)
Pow10(dec) ==
  IF dec = 0 THEN 1 ELSE 10 * Pow10(dec - 1)

\* parseFloat(value.toFixed(dec)): the multiple of 10^-dec nearest to value,
\* the one further from 0 of two nearest; NaN stays NaN.
toFixed(value, dec) ==
  IF value = NaN THEN NaN
  ELSE
    LET scale == Pow10(dec)
        q == (2 * Abs(value.n) * scale + value.d) \div (2 * value.d)
    IN  Num(IF value.n < 0 THEN 0 - q ELSE q, scale)

\* `if (format) value = format(value)`.
Format(value, format) ==
  IF format = <<>> THEN value ELSE toFixed(value, format[1])

\* The closes as numbers.
RECURSIVE Numbers(_)
Numbers(list) ==
  IF list = <<>> THEN <<>> ELSE <<Whole(Head(list))>> \o Numbers(Tail(list))

RECURSIVE Sum(_)
Sum(list) ==
  IF list = <<>> THEN Whole(0) ELSE plus(Head(list), Sum(Tail(list)))

\* mean of mathjs, on a list that is not empty.
mean(list) ==
  over(Sum(list), Whole(Len(list)))

\* lastN(n): the last number of a list, undefined for an empty list.
lastN(n) ==
  IF Len(n) = 0 THEN <<>> ELSE <<n[Len(n)]>>

\* getLastMA(maValues): the last value per window; the key of a window whose
\* list is undefined or empty is left out (its field reads as undefined).
getLastMA(maValues) ==
  [key \in DOMAIN maValues |->
     IF Len(maValues[key]) = 0 THEN <<>> ELSE lastN(maValues[key])]

\* smooth(mRange).
smooth(mRange) ==
  Num(2, mRange + 1)

\* The loop of ema from index i (the code's i + 1) on.
RECURSIVE emaLoop(_, _, _, _, _)
emaLoop(closes, k, value, i, format) ==
  IF i > Len(closes) THEN <<>>
  ELSE
    LET next == Format(plus(times(k, closes[i]),
                            times(minus(Whole(1), k), value)), format)
    IN  <<next>> \o emaLoop(closes, k, next, i + 1, format)

\* A faulty variant of ema: the seed is the first close.
emaSeedFirst(closes, mRange, format) ==
  IF Len(closes) < mRange THEN <<>>
  ELSE <<closes[1]>>
         \o emaLoop(closes, smooth(mRange), closes[1], mRange + 1, format)

\* ema(closes, mRange, format).
ema(closes, mRange, format) ==
  IF Len(closes) < mRange THEN <<>>
  ELSE
    LET seed == mean(SubSeq(closes, 1, mRange))
    IN  <<seed>> \o emaLoop(closes, smooth(mRange), seed, mRange + 1, format)

\* The loop of sma from index i (the code's i + 1) on.
RECURSIVE smaLoop(_, _, _, _)
smaLoop(closes, mRange, i, format) ==
  IF i > Len(closes) - mRange + 1 THEN <<>>
  ELSE <<Format(mean(SubSeq(closes, i, i + mRange - 1)), format)>>
         \o smaLoop(closes, mRange, i + 1, format)

\* A faulty variant of sma: the newest window is not computed.
smaShort(closes, mRange, format) ==
  IF Len(closes) < mRange THEN <<>>
  ELSE smaLoop(SubSeq(closes, 1, Len(closes) - 1), mRange, 1, format)

\* sma(closes, mRange, format).
sma(closes, mRange, format) ==
  IF Len(closes) < mRange THEN <<>> ELSE smaLoop(closes, mRange, 1, format)

\* The loop of calcMACD from index i (the code's i + 1) down, reversed: the
\* values of the indices below a falsy value are left out.
RECURSIVE macdLoop(_, _, _, _)
macdLoop(short, long, i, format) ==
  IF i < 1 THEN <<>>
  ELSE IF IsFalsy(short[i]) \/ IsFalsy(long[i]) THEN <<>>
  ELSE macdLoop(short, long, i - 1, format)
         \o <<Format(minus(short[i], long[i]), format)>>

\* calcMACD(short, long, format): both lists are read at the same index,
\* counted from their start.
calcMACD(short, long, format) ==
  LET length == IF Len(short) < Len(long) THEN Len(short) ELSE Len(long)
  IN  macdLoop(short, long, length, format)

\* getFirstRS(values): the totals of the rises and of the falls.
RECURSIVE Total(_, _, _)
Total(values, n, gains) ==
  IF n > Len(values) THEN Whole(0)
  ELSE
    LET change == minus(values[n], values[n - 1])
        counts == IF gains THEN change.n > 0 ELSE change.n <= 0
    IN  plus(IF counts THEN change ELSE Whole(0), Total(values, n + 1, gains))

getFirstRS(values) ==
  [gainAvg |-> over(Total(values, 2, TRUE), Whole(Len(values) - 1)),
   lossAvg |-> over(Total(values, 2, FALSE), Whole(Len(values) - 1)),
   last |-> values[Len(values)]]

\* Number((100 - 100 / (1 + gainAvg / abs(lossAvg))).toFixed(2)); a division
\* by 0 gives Infinity for a gain and NaN for no gain.
Rsiv(gainAvg, lossAvg) ==
  IF lossAvg.n = 0
    THEN IF gainAvg.n = 0 THEN NaN ELSE Whole(100)
    ELSE toFixed(minus(Whole(100),
                       over(Whole(100),
                            plus(Whole(1),
                                 over(gainAvg, Num(Abs(lossAvg.n), lossAvg.d))))),
                 2)

\* The loop of calcRSI from index i (the code's i + 1) on.
RECURSIVE rsiLoop(_, _, _, _, _, _)
rsiLoop(closes, timeLength, gainAvg, lossAvg, last, i) ==
  IF i > Len(closes) THEN <<>>
  ELSE
    LET value == minus(closes[i], last)
        rest == Whole(timeLength - 1)
        gain == IF value.n > 0
                  THEN over(plus(times(gainAvg, rest), value), Whole(timeLength))
                  ELSE over(times(gainAvg, rest), Whole(timeLength))
        loss == IF value.n > 0
                  THEN over(times(lossAvg, rest), Whole(timeLength))
                  ELSE over(plus(times(lossAvg, rest), value), Whole(timeLength))
    IN  <<Rsiv(gain, loss)>>
          \o rsiLoop(closes, timeLength, gain, loss, closes[i], i + 1)

\* calcRSI(closes, timeLength).
calcRSI(closes, timeLength) ==
  IF Len(closes) < timeLength + 1 THEN <<>>
  ELSE
    LET first == getFirstRS(SubSeq(closes, 1, timeLength + 1))
    IN  <<Rsiv(first.gainAvg, first.lossAvg)>>
          \o rsiLoop(closes, timeLength, first.gainAvg, first.lossAvg,
                     first.last, timeLength + 2)

\* UNSET_MA_SET: no window has a list.  A list that is undefined is read
\* like an empty one (`?? []`, `!value || value.length === 0`).
UNSET_MA_SET ==
  LET unset == [twelve |-> <<>>, twentysix |-> <<>>, fifty |-> <<>>,
                twohundred |-> <<>>]
  IN  [sma |-> unset, ema |-> unset]

\* createMASet(closes), with this.formatQuote as format.
createMASet(closes, format) ==
  IF Len(closes) = 0 THEN UNSET_MA_SET
  ELSE [sma |-> [twelve |-> sma(closes, Twelve, format),
                 twentysix |-> sma(closes, TwentySix, format),
                 fifty |-> sma(closes, Fifty, format),
                 twohundred |-> sma(closes, TwoHundred, format)],
        ema |-> [twelve |-> ema(closes, Twelve, format),
                 twentysix |-> ema(closes, TwentySix, format),
                 fifty |-> ema(closes, Fifty, format),
                 twohundred |-> ema(closes, TwoHundred, format)]]

\* createMACD(shortEMA, longEMA), with this.formatQuote as format.
createMACD(shortEMA, longEMA, format) ==
  LET value == calcMACD(shortEMA, longEMA, format)
  IN  [value |-> value, signal |-> ema(value, SignalRange, format)]

\* The Indicators that createIndicators returns for a MASet and a MACD.
Indicators(closes, set, macd) ==
  [rsi |-> lastN(calcRSI(closes, RsiLength)),
   macd |-> [value |-> lastN(macd.value), signal |-> lastN(macd.signal)],
   sma |-> getLastMA(set.sma),
   ema |-> getLastMA(set.ema)]

\* The lists of closes: every list of at most MaxCloses closes.
CloseLists ==
  UNION {[1..len -> 1..MaxClose] : len \in 0..MaxCloses}

\* Two lists of closes beside them: a rising one and a constant one.
ExampleCloses ==
  {<<1, 2, 3, 4, 5>>, <<10, 10, 10, 10>>}

\* ---- sma and ema on their own, without a format callback.
MaInit ==
  /\ SchedInit /\ configOk
  /\ CandleIdle
  /\ BucketIdle
  /\ CrossIdle
  /\ SortIdle
  /\ UpdIdle
  /\ NtfIdle
  /\ CfgIdle
  /\ CycIdle
  /\ CallIdle
  /\ \E list \in CloseLists \cup ExampleCloses : indCloses = Numbers(list)
  /\ quoteDec = 0
  /\ maRange \in 1..MaxRange
  /\ smas = <<>>
  /\ emas = <<>>
  /\ maSet = <<>>
  /\ macds = <<>>
  /\ indicators = <<>>
  /\ indPc = "given"

\* smas = sma(closes, mRange).
MaSma ==
  /\ indPc = "given"
  /\ smas' = sma(indCloses, maRange, <<>>)
  /\ indPc' = "sma"
  /\ UNCHANGED <<indCloses, quoteDec, maRange, emas, maSet, macds, indicators>>
  /\ UNCHANGED <<schedVars, candleVars, bucketVars, crossVars, sortVars, updVars, ntfVars, cfgVars, cycVars, callVars>>

\* emas = ema(closes, mRange).
MaEma ==
  /\ indPc = "sma"
  /\ emas' = ema(indCloses, maRange, <<>>)
  /\ indPc' = "ema"
  /\ UNCHANGED <<indCloses, quoteDec, maRange, smas, maSet, macds, indicators>>
  /\ UNCHANGED <<schedVars, candleVars, bucketVars, crossVars, sortVars, updVars, ntfVars, cfgVars, cycVars, callVars>>

MaNext ==
  \/ MaSma
  \/ MaEma

MaSpec ==
  MaInit /\ [][MaNext]_vars

\* ---- createIndicators for the closes of a product's buckets.
IndInit ==
  /\ SchedInit /\ configOk
  /\ CandleIdle
  /\ BucketIdle
  /\ CrossIdle
  /\ SortIdle
  /\ UpdIdle
  /\ NtfIdle
  /\ CfgIdle
  /\ CycIdle
  /\ CallIdle
  /\ \E list \in CloseLists : indCloses = Numbers(list)
  /\ quoteDec \in 0..MaxDecimals
  /\ maRange = 1
  /\ smas = <<>>
  /\ emas = <<>>
  /\ maSet = <<>>
  /\ macds = <<>>
  /\ indicators = <<>>
  /\ indPc = "given"

\* createIndicators(closes): createMASet, createMACD on the short and the
\* long EMA of the set, calcRSI, and the last values of each.
IndCreate ==
  /\ indPc = "given"
  /\ LET set == createMASet(indCloses, <<quoteDec>>)
         macd == createMACD(set.ema.twelve, set.ema.twentysix, <<quoteDec>>)
     IN  /\ maSet' = set
         /\ macds' = macd
         /\ indicators' = Indicators(indCloses, set, macd)
  /\ indPc' = "created"
  /\ UNCHANGED <<indCloses, quoteDec, maRange, smas, emas>>
  /\ UNCHANGED <<schedVars, candleVars, bucketVars, crossVars, sortVars, updVars, ntfVars, cfgVars, cycVars, callVars>>

IndNext ==
  IndCreate

IndSpec ==
  IndInit /\ [][IndNext]_vars

\* =========================================================================
\* Part 10 - the rankings of the products over the passes of initState and
\* of updateData, and doAnalysis on them.  A ranking is modelled by the
\* indicators the analysis reads.  An indicator is a whole number here, and
\* one that is undefined is the empty tuple.
\* =========================================================================
\* The ranking of a product with too few buckets for any indicator.
Young ==
  [defined |-> TRUE, sma |-> NoMAValues, ema |-> NoMAValues, rsi |-> <<>>,
   macd |-> [value |-> <<>>, signal |-> <<>>]]

\* The ranking of a product with the buckets for the two short windows, the
\* RSI and the MACD: the short average is v above the long one, so the MACD
\* value is v, over a signal of 0; the RSI is low, middling or high with it.
Ripe(v) ==
  LET ma == [twelve |-> 2 + v, twentysix |-> 2, fifty |-> 0, twohundred |-> 0]
  IN  [defined |-> TRUE, sma |-> ma, ema |-> ma, rsi |-> <<50 + 30 * v>>,
       macd |-> [value |-> <<v>>, signal |-> <<0>>]]

\* The rankings makeRanking may return in a pass.
CycleRecords ==
  {Young} \cup {Ripe(v) : v \in {0 - 1, 0, 1}}

\* What makeRanking may return: undefined (no buckets), or a ranking.
Outcomes ==
  {<<>>} \cup {<<r>> : r \in CycleRecords}

\* `a > b` of JavaScript on numbers: false when one of them is undefined.
Greater(a, b) ==
  a # <<>> /\ b # <<>> /\ a[1] > b[1]

\* `a < b` of JavaScript on numbers: false when one of them is undefined.
Less(a, b) ==
  a # <<>> /\ b # <<>> /\ a[1] < b[1]

\* `!value` of JavaScript on a number that may be undefined.
Falsy(value) ==
  value = <<>> \/ value[1] = 0

\* The texts of macdAnalysis and of rsiAnalysis, without the product id.
BaseUp ==
  "crossed the BASE line moving UP."

BaseDown ==
  "crossed the BASE line moving DOWN."

SignalUp ==
  "crossed the SIGNAL line moving UP."

SignalDown ==
  "crossed the SIGNAL line moving DOWN."

Overbought ==
  "now overbought"

Oversold ==
  "now oversold"

\* macdAnalysis(data): `data.lastRanking?.indicators.macd` is undefined only
\* when the ranking is.
macdAnalysis(lastRanking, currentRanking) ==
  IF ~lastRanking.defined \/ ~currentRanking.defined THEN <<>>
  ELSE
    LET last == lastRanking.macd
        now == currentRanking.macd
        base == IF Less(last.value, <<0>>) /\ Greater(now.value, <<0>>)
                  THEN <<BaseUp>>
                ELSE IF Greater(last.value, <<0>>) /\ Less(now.value, <<0>>)
                  THEN <<BaseDown>>
                ELSE <<>>
        lastAbove == Greater(last.value, last.signal)
        nowAbove == Greater(now.value, now.signal)
        signal == IF nowAbove /\ ~lastAbove THEN <<SignalUp>>
                  ELSE IF ~nowAbove /\ lastAbove THEN <<SignalDown>>
                  ELSE <<>>
    IN  base \o signal

\* rsiAnalysis(data): the message, if one is returned.
rsiAnalysis(lastRanking, currentRanking) ==
  LET last == IF lastRanking.defined THEN lastRanking.rsi ELSE <<>>
      now == IF currentRanking.defined THEN currentRanking.rsi ELSE <<>>
  IN
  IF Falsy(last) \/ Falsy(now) THEN <<>>
  ELSE
    LET wasInRange == last[1] >= RSI_OVERSOLD /\ last[1] <= RSI_OVERBOUGHT
        isHigh == now[1] > RSI_OVERBOUGHT
        isLow == now[1] < RSI_OVERSOLD
    IN  IF wasInRange /\ isHigh THEN <<Overbought>>
        ELSE IF wasInRange /\ isLow THEN <<Oversold>>
        ELSE <<>>

\* The body of the loop of doAnalysis for a product that has a ProductData.
Analyse(pData) ==
  [cross |-> crossAnalysis(pData.lastRanking, pData.currentRanking, "SMA") \o
             crossAnalysis(pData.lastRanking, pData.currentRanking, "EMA"),
   macd |-> macdAnalysis(pData.lastRanking, pData.currentRanking),
   rsi |-> rsiAnalysis(pData.lastRanking, pData.currentRanking)]

\* doAnalysis(products): the messages, kept per product;
\* `if (!pData) continue`.
doAnalysis(products) ==
  [p \in Pairs |->
     IF p \in products /\ productData[p].exists
       THEN Analyse(productData[p])
       ELSE NoAnalysis]

\* ProductData.initialize(productId, oldestISO): the ProductData that is
\* found, or a new one, which is saved.
initialize(data) ==
  IF data.exists THEN data
  ELSE [NoProductData EXCEPT !.exists = TRUE]

\* A faulty variant of the end of update: the current ranking is replaced
\* and the last one is left as it was.
rotateCurrentOnly(pData, newRanking) ==
  IF newRanking = <<>> THEN pData
  ELSE [pData EXCEPT !.currentRanking = newRanking[1]]

\* ProductData.update, its end: `if (newRanking) { this.lastRanking =
\* this.currentRanking; this.currentRanking = newRanking; }`.
rotateRanking(pData, newRanking) ==
  IF newRanking = <<>> THEN pData
  ELSE [pData EXCEPT !.lastRanking = pData.currentRanking,
                     !.currentRanking = newRanking[1]]

\* `if (update.data) State.setRanking(update.data)`.
setRanking(map, pId, newRanking) ==
  IF newRanking = <<>> THEN map
  ELSE [map EXCEPT ![pId] = newRanking[1]]

\* `Products.filter(PRODUCT_OPTS).map((p) => p.id)`.
productIds ==
  SortedList(refProducts)

\* What update returned: no data, or data.
UpdateResult(newRanking) ==
  IF newRanking = <<>> THEN "empty" ELSE "data"

\* The process before initState: the reference data holds the products
\* 1..n, and no product has a ProductData.
CycleInit ==
  /\ SchedInit /\ configOk
  /\ CandleIdle
  /\ BucketIdle
  /\ CrossIdle
  /\ SortIdle
  /\ UpdIdle
  /\ NtfIdle
  /\ CfgIdle
  /\ IndIdle
  /\ CallIdle
  /\ \E n \in 0..MaxStartup :
       /\ refProducts = 1..n
       /\ cycPc = IF n = 0 THEN "idle" ELSE "init"
       /\ cycI = IF n = 0 THEN 0 ELSE 1
  /\ productData = [p \in Pairs |-> NoProductData]
  /\ currentRankings = [p \in Pairs |-> NoSnapshot]
  /\ updates = [p \in Pairs |-> "none"]
  /\ analysisRes = [p \in Pairs |-> NoAnalysis]
  /\ macdTrend = [p \in Pairs |-> 0]

\* initState, one pass of its loop: ProductData.initialize, update without
\* options, `if (update.data) State.setRanking(update.data)`.
CycInitState ==
  /\ cycPc = "init"
  /\ LET pId == productIds[cycI]
         pData == initialize(productData[pId])
     IN  \E newRanking \in Outcomes :
           /\ productData' =
                [productData EXCEPT ![pId] = rotateRanking(pData, newRanking)]
           /\ currentRankings' = setRanking(currentRankings, pId, newRanking)
           /\ updates' = [updates EXCEPT ![pId] = UpdateResult(newRanking)]
  /\ cycPc' = IF cycI < Len(productIds) THEN "init" ELSE "idle"
  /\ cycI' = IF cycI < Len(productIds) THEN cycI + 1 ELSE 0
  /\ UNCHANGED <<refProducts, analysisRes, macdTrend>>
  /\ UNCHANGED <<schedVars, candleVars, bucketVars, crossVars, sortVars, updVars, ntfVars, cfgVars, indVars, callVars>>

\* updateData up to its loop: `await updateProducts()` may add products to
\* the reference data (none when getProducts is rejected), and products is
\* read from it.
CycProducts ==
  /\ cycPc = "idle"
  /\ \E added \in SUBSET (Pairs \ refProducts) :
       /\ refProducts' = refProducts \cup added
       /\ cycPc' = IF refProducts \cup added = {} THEN "analysis" ELSE "update"
       /\ cycI' = IF refProducts \cup added = {} THEN 0 ELSE 1
  /\ updates' = [p \in Pairs |-> "none"]
  /\ UNCHANGED <<productData, currentRankings, analysisRes, macdTrend>>
  /\ UNCHANGED <<schedVars, candleVars, bucketVars, crossVars, sortVars, updVars, ntfVars, cfgVars, indVars, callVars>>

\* updateData, one pass of its loop: `const pData = ProductData.find(pId);
\* if (!pData) continue;`, update with options,
\* `if (update.data) State.setRanking(update.data)`.
CycUpdate ==
  /\ cycPc = "update"
  /\ LET pId == productIds[cycI]
         pData == productData[pId]
     IN  IF ~pData.exists
           THEN UNCHANGED <<productData, currentRankings, updates>>
           ELSE \E newRanking \in Outcomes :
                  /\ productData' =
                       [productData EXCEPT
                          ![pId] = rotateRanking(pData, newRanking)]
                  /\ currentRankings' =
                       setRanking(currentRankings, pId, newRanking)
                  /\ updates' = [updates EXCEPT ![pId] = UpdateResult(newRanking)]
  /\ cycPc' = IF cycI < Len(productIds) THEN "update" ELSE "analysis"
  /\ cycI' = IF cycI < Len(productIds) THEN cycI + 1 ELSE 0
  /\ UNCHANGED <<refProducts, analysisRes, macdTrend>>
  /\ UNCHANGED <<schedVars, candleVars, bucketVars, crossVars, sortVars, updVars, ntfVars, cfgVars, indVars, callVars>>

\* The sign of the last MACD value off zero that the analysis has read for
\* product p, after an analysis with the messages res for it: the side a
\* message names, else the sign of the current value, else the sign before;
\* 0 when the value is undefined.
Trend(p, res) ==
  LET value == productData[p].currentRanking.macd.value IN
  IF \E i \in 1..Len(res.macd) : res.macd[i] = BaseUp THEN 1
  ELSE IF \E i \in 1..Len(res.macd) : res.macd[i] = BaseDown THEN 0 - 1
  ELSE IF value = <<>> THEN 0
  ELSE IF value[1] > 0 THEN 1
  ELSE IF value[1] < 0 THEN 0 - 1
  ELSE macdTrend[p]

\* updateData from `const analysis = doAnalysis(products)` on: the messages
\* are handed to sendAnalysis.
CycAnalysis ==
  /\ cycPc = "analysis"
  /\ analysisRes' = doAnalysis(refProducts)
  /\ macdTrend' = [p \in Pairs |-> Trend(p, doAnalysis(refProducts)[p])]
  /\ cycPc' = "idle"
  /\ UNCHANGED <<refProducts, productData, currentRankings, cycI, updates>>
  /\ UNCHANGED <<schedVars, candleVars, bucketVars, crossVars, sortVars, updVars, ntfVars, cfgVars, indVars, callVars>>

CycleNext ==
  \/ CycInitState
  \/ CycProducts
  \/ CycUpdate
  \/ CycAnalysis

CycleSpec ==
  CycleInit /\ [][CycleNext]_vars

\* ---- doAnalysis on drawn rankings of one product.
\* An indicator that is undefined, or one of the values given.
Optional(values) ==
  {<<>>} \cup {<<v>> : v \in values}

\* The RSI of a drawn ranking: undefined, an end of the scale, or a
\* threshold or a value next to it.
RsiReadings ==
  Optional(RsiVals \cup {0, 100})

\* The MACD of a drawn ranking: the value and the signal are undefined or
\* around zero, and there is no signal without a value.
MacdReadings ==
  {m \in [value : Optional((0 - 1)..1), signal : Optional((0 - 1)..1)] :
     m.signal # <<>> => m.value # <<>>}

\* The moving averages of a drawn ranking: the short windows that the RSI and
\* the MACD come with, one value for all.
FlatMA(rsi, macd) ==
  [twelve |-> IF rsi # <<>> THEN 1 ELSE 0,
   twentysix |-> IF macd.value # <<>> THEN 1 ELSE 0,
   fifty |-> 0, twohundred |-> 0]

\* The drawn rankings: a MACD value takes more buckets than an RSI.
AnalysisRecords ==
  {[defined |-> TRUE, sma |-> FlatMA(r[1], r[2]), ema |-> FlatMA(r[1], r[2]),
    rsi |-> r[1], macd |-> r[2]] :
     r \in {k \in RsiReadings \X MacdReadings :
              k[2].value # <<>> => k[1] # <<>>}}

\* updateData after its loop, for one product that has its first ranking, or
\* a last and a current one.
AnalysisInit ==
  /\ SchedInit /\ configOk
  /\ CandleIdle
  /\ BucketIdle
  /\ CrossIdle
  /\ SortIdle
  /\ UpdIdle
  /\ NtfIdle
  /\ CfgIdle
  /\ IndIdle
  /\ CallIdle
  /\ refProducts = {1}
  /\ \E current \in AnalysisRecords, last \in AnalysisRecords \cup {NoSnapshot} :
       /\ productData =
            [p \in Pairs |->
               IF p = 1 THEN [exists |-> TRUE, lastRanking |-> last,
                              currentRanking |-> current]
               ELSE NoProductData]
       /\ currentRankings =
            [p \in Pairs |-> IF p = 1 THEN current ELSE NoSnapshot]
  /\ cycPc = "analysis"
  /\ cycI = 0
  /\ updates = [p \in Pairs |-> IF p = 1 THEN "data" ELSE "none"]
  /\ analysisRes = [p \in Pairs |-> NoAnalysis]
  /\ macdTrend = [p \in Pairs |-> 0]

AnalysisNext ==
  CycAnalysis

AnalysisSpec ==
  AnalysisInit /\ [][AnalysisNext]_vars

\* =========================================================================
\* Part 11 - the calls made to the State: updateFilter, getSortedRankings
\* and a pass of updateData.  `unsorted` holds the rankings of
\* State.currentRankings in the order of the map and `sortFilter` is
\* State.sortFilter, in which a field that is not set reads as 0 or FALSE.
\* =========================================================================
FilterFields ==
  {"count", "close", "diff", "volume", "movement", "overbought", "oversold"}

\* The products that get rankings, in the order in which the map gets them.
StateProducts ==
  <<1, 2>>

\* The partial filters of a call of updateFilter: no field or one field is
\* given, a count or a flag.
Partials ==
  {p \in [count : Optional({0, 1}), close : Optional(BOOLEAN),
          diff : Optional(BOOLEAN), volume : Optional(BOOLEAN),
          movement : Optional(BOOLEAN), overbought : Optional(BOOLEAN),
          oversold : Optional(BOOLEAN)] :
     Cardinality({f \in FilterFields : p[f] # <<>>}) <= 1}

\* `if (filter.x !== undefined && filter.x !== old.x) State.sortFilter.x =
\* filter.x`: the value of the field afterwards.
Stored(old, new) ==
  IF new # <<>> /\ new[1] # old THEN new[1] ELSE old

\* A faulty variant of updateFilter: the filter given replaces the stored
\* one, and a field it does not give is not set afterwards.
updateFilterReplace(old, filter) ==
  [count |-> Stored(0, filter.count),
   close |-> Stored(FALSE, filter.close),
   diff |-> Stored(FALSE, filter.diff),
   volume |-> Stored(FALSE, filter.volume),
   movement |-> Stored(FALSE, filter.movement),
   overbought |-> Stored(FALSE, filter.overbought),
   oversold |-> Stored(FALSE, filter.oversold)]

\* State.updateFilter(filter): State.sortFilter afterwards.
updateFilter(old, filter) ==
  [count |-> Stored(old.count, filter.count),
   close |-> Stored(old.close, filter.close),
   diff |-> Stored(old.diff, filter.diff),
   volume |-> Stored(old.volume, filter.volume),
   movement |-> Stored(old.movement, filter.movement),
   overbought |-> Stored(old.overbought, filter.overbought),
   oversold |-> Stored(old.oversold, filter.oversold)]

\* The rankings of list after sortRankings has returned s: `let s = [...
\* rankings]` copies the array and not its rankings, so that
\* `s[i].ranking = i + 1` writes to the rankings of list.
Shared(list, s) ==
  [i \in 1..Len(list) |->
     IF \E j \in 1..Len(s) : s[j].productId = list[i].productId
       THEN [list[i] EXCEPT
               !.ranking =
                 CHOOSE j \in 1..Len(s) : s[j].productId = list[i].productId]
       ELSE list[i]]

\* The ratios of the ranking of product id: the movement of the first
\* product is not above 1.
ProfileOf(id) ==
  [close |-> 2, diff |-> 2, volume |-> 2,
   movement |-> IF id = 1 THEN 1 ELSE 2]

\* The filter overrides of a call of getSortedRankings: none, a count, or
\* the movement flag.
Overrides ==
  {<<>>, <<[NoFilter EXCEPT !.movement = TRUE]>>,
   <<[NoFilter EXCEPT !.count = 1]>>}

\* The State as it is constructed.
StateInit ==
  /\ SchedInit /\ configOk
  /\ CandleIdle
  /\ BucketIdle
  /\ CrossIdle
  /\ UpdIdle
  /\ NtfIdle
  /\ CfgIdle
  /\ IndIdle
  /\ CycIdle
  /\ unsorted = <<>>
  /\ sortFilter = NoFilter
  /\ sorted = <<>>
  /\ resorted = <<>>
  /\ sortPc = "state"
  /\ stateCall = NoCall

\* State.updateFilter(filter), as the filter command calls it.
StateUpdateFilter ==
  /\ sortPc = "state"
  /\ \E filter \in Partials :
       /\ sortFilter' = updateFilter(sortFilter, filter)
       /\ stateCall' = [NoCall EXCEPT !.op = "updateFilter", !.filter = filter]
  /\ UNCHANGED <<unsorted, sorted, resorted, sortPc>>
  /\ UNCHANGED <<schedVars, candleVars, bucketVars, crossVars, updVars, ntfVars, cfgVars, indVars, cycVars>>

\* State.getSortedRankings(filterOverride) called by a reader:
\* `if (!filterOverride) filterOverride = State.getFilter()`, then
\* sortRankings on the rankings of the map.
StateGetSortedRankings ==
  /\ sortPc = "state"
  /\ \E filterOverride \in Overrides :
       LET filter == IF filterOverride = <<>> THEN sortFilter
                     ELSE filterOverride[1]
           s == sortRankings(unsorted, filter)
       IN  /\ sorted' = s
           /\ unsorted' = Shared(unsorted, s)
           /\ stateCall' = [NoCall EXCEPT !.op = "getSortedRankings",
                                          !.filterOverride = filterOverride]
  /\ UNCHANGED <<sortFilter, resorted, sortPc>>
  /\ UNCHANGED <<schedVars, candleVars, bucketVars, crossVars, updVars, ntfVars, cfgVars, indVars, cycVars>>

\* A pass of updateData, as the State sees it: State.setRanking for the
\* products for which update returns a ranking (products that have none yet
\* among them), each with `ranking: -1` and a later product with the better
\* rating, and then State.getSortedRankings(), whose list the pass returns.
StateUpdateData ==
  /\ sortPc = "state"
  /\ \E n \in Len(unsorted)..Len(StateProducts),
        produced \in SUBSET (1..Len(unsorted)) :
       LET set == [i \in 1..n |->
                     IF i > Len(unsorted) \/ i \in produced
                       THEN Ranking(StateProducts[i], ProfileOf(i), i,
                                    RSI_OVERSOLD)
                       ELSE unsorted[i]]
           s == sortRankings(set, sortFilter)
       IN  /\ sorted' = s
           /\ unsorted' = Shared(set, s)
  /\ stateCall' = [NoCall EXCEPT !.op = "updateData"]
  /\ UNCHANGED <<sortFilter, resorted, sortPc>>
  /\ UNCHANGED <<schedVars, candleVars, bucketVars, crossVars, updVars, ntfVars, cfgVars, indVars, cycVars>>

StateNext ==
  \/ StateUpdateFilter
  \/ StateGetSortedRankings
  \/ StateUpdateData

StateSpec ==
  StateInit /\ [][StateNext]_vars

\* =========================================================================
\* Properties
\* =========================================================================
IsAscending(list) ==
  \A i, j \in 1..Len(list) : i < j => list[i] <= list[j]

NoDuplicates(list) ==
  \A i, j \in 1..Len(list) : i # j => list[i] # list[j]

\* C1: at any moment at most one update cycle is in flight, whatever the
\* number and the interleaving of the cron ticks.
C1_AtMostOneCycle ==
  Cardinality(CyclesInFlight) <= 1

\* A later tick was skipped while an earlier one is storing its records.
C1_Witness ==
  \E s, t \in Triggers : s < t /\ trig[s] = "rank" /\ trig[t] = "skipped"

\* C2 as stated: a tick that arrived while State.isUpdating was true never
\* starts a cycle.
C2_ArrivedBusyNeverStarts ==
  [][\A t \in Triggers :
       (trig[t] = "delay" /\ arrivedBusy[t]) => trig'[t] # "currencies"]_vars

\* C2, amended: a tick whose guard check (made when its 20 s delay is over)
\* finds State.isUpdating true starts no cycle, stays skipped for good, and
\* leaves the guard, the cycle in flight and the stored data as they are.
C2_BusyCheckSkips ==
  [][\A t \in Triggers :
       /\ (trig[t] = "delay" /\ trig'[t] # "delay" /\ updating) =>
            /\ trig'[t] = "skipped"
            /\ updating'
            /\ idx' = idx
            /\ rankings' = rankings
            /\ statuses' = statuses
            /\ \A s \in Triggers \ {t} : trig'[s] = trig[s]
       /\ (trig[t] = "skipped" => trig'[t] = "skipped")]_vars

\* A tick was skipped and the earlier cycle has since run to its end.
C2_Witness ==
  \E s, t \in Triggers :
    /\ s < t
    /\ trig[t] = "skipped"
    /\ trig[s] = "done"
    /\ rankings[NumPairs] = Writer(s)
    /\ ~updating

\* C3: the guard is cleared when a cycle ends, whether it returned or threw:
\* State.updating is false whenever neither a cycle nor initState is running,
\* so the next tick can start a cycle.
C3_GuardClearedAtEnd ==
  (CyclesInFlight = {} /\ ~InitRunning) => ~updating

\* A cycle threw and the next tick has started a cycle.
C3_Witness ==
  \E s, t \in Triggers : s < t /\ trig[s] = "failed" /\ InFlight(t)

\* C4 as stated: no reader is ever given a map in which some pairs carry the
\* record of the cycle in flight and others the record of an earlier writer,
\* with the cycle storing further records afterwards.
C4_ReadersSeeWholeCycles ==
  readState # "torn"

\* C5: disable() is idempotent and final: once State.isEnabled is false it
\* stays false, no tick starts a cycle (the ticks that fired before and are
\* still in their delay included), and a further killAll leaves the ticks
\* as they are.
C5_DisabledStartsNoCycle ==
  [][~isEnabled =>
       /\ ~isEnabled'
       /\ \A t \in Triggers : trig'[t] = "currencies" => trig[t] = "currencies"
       /\ \A k \in Killers :
            (kill[k] = "off" /\ kill'[k] # "off") => trig' = trig]_vars

\* killAll disabled the State while a cycle was in flight; the cycle has run
\* to its end and a tick that came to its guard afterwards was refused.
C5_Witness ==
  /\ ~isEnabled
  /\ Alive
  /\ \E s, t \in Triggers : s < t /\ trig[s] = "done" /\ trig[t] = "refused"

\* C6: disable() does not cancel the cycle in flight: the step that disables
\* leaves the cycle's position and the guard alone, and from then on the
\* cycle holds the guard at every stage and reaches its end only from its
\* last stage, where the guard is cleared.
C6_DisableLeavesCycle ==
  [][\A t \in Triggers : InFlight(t) =>
       /\ (isEnabled /\ ~isEnabled') =>
            (trig'[t] = trig[t] /\ idx'[t] = idx[t] /\ updating')
       /\ ~isEnabled =>
            /\ updating
            /\ InFlight(t)' => updating'
            /\ trig'[t] = "done" =>
                 /\ trig[t] \in {"rank", "drain"}
                 /\ idx[t] = NumPairs
                 /\ ~updating']_vars

\* killAll found the only cycle in flight, and that cycle has run to its end
\* and cleared the guard while killAll is still polling.
C6_Witness ==
  /\ ~isEnabled
  /\ kill["sigint"] = "pollUpdating"
  /\ fired = 1
  /\ trig[1] = "done"
  /\ ~updating

\* C7 as stated: on every shutdown path the process does not exit while
\* State.isUpdating is true.
C7_NoExitWhileUpdating ==
  exited # "no" => ~updating

\* C7, amended: on the killAll paths (the first SIGINT, the catch handler of
\* the entry point) the process does not exit while State.isUpdating is true.
C7_KillAllWaits ==
  exited = "killAll" => ~updating

\* killAll was called with a cycle in flight and is polling: the process is
\* still running.
C7_Witness ==
  /\ Alive
  /\ kill["sigint"] = "pollUpdating"
  /\ updating
  /\ CyclesInFlight # {}

\* C8: the process does not exit while a candle save is in flight.  It is
\* stated for the killAll paths alone, which is less than the claim asks:
\* the direct exit of the fifth SIGINT is left aside.
C8_KillAllDrainsSaves ==
  exited = "killAll" => ~SaveInFlight

\* C9: a cycle starts only from idle: every cycle that is running or has
\* ended belongs to a State whose initialization is over.
C9_CyclesOnlyAfterInit ==
  \A t \in Triggers :
    trig[t] \in RunningPcs \cup {"done", "failed"} =>
      (initialized /\ ~InitRunning)

\* A tick came to its guard while initState was running, and was skipped.
C9_Witness ==
  InitRunning /\ \E t \in Triggers : trig[t] = "skipped"

C12_SeededOnce ==
  \A p \in Pairs : candleLoads[p] # "again"


\* ------------------------------------------------------------------- C13
\* The candles given to the aggregator are 4 consecutive candles, with
\* candlesPer = 2 and total = 2.
C13_Case ==
  /\ bucketPc = "built"
  /\ candlesPer = 2
  /\ totalBuckets = 2
  /\ Len(bucketCandles) = 4
  /\ \A i \in 1..3 :
       bucketCandles[i + 1].openTimeInISO =
         bucketCandles[i].openTimeInISO + CandleSize

\* C13: given 4 consecutive candles with candlesPer = 2 and total = 2, the
\* aggregator returns exactly 2 buckets, each with dataPoints = 2 and with a
\* price high equal to the largest high of its 2 source candles.
C13_TwoFullBuckets ==
  C13_Case =>
    /\ Len(bucketData) = 2
    /\ \A k \in 1..2 :
         /\ bucketData[k].dataPoints = 2
         /\ bucketData[k].high =
              Max(bucketCandles[2 * k - 1].high, bucketCandles[2 * k].high)

\* ------------------------------------------------------------------- C14
\* C14: every bucket the aggregator returns has high >= low >= 0 and
\* dataPoints >= 1.
C14_BucketsWellFormed ==
  bucketPc = "built" =>
    \A k \in 1..Len(bucketData) :
      /\ bucketData[k].high >= bucketData[k].low
      /\ bucketData[k].low >= 0
      /\ bucketData[k].dataPoints >= 1

\* A call that returned a backfilled bucket after a bucket with candles.
C14_Witness ==
  /\ bucketPc = "built"
  /\ LET cb == Reverse(createCandleBuckets(bucketCandles, optsEnd,
                                            candlesPer, totalBuckets))
     IN \E i \in 1..Len(cb) :
          Len(cb[i].candles) = 0 /\ findPrev(cb, i) # 0
  /\ Len(bucketData) = 2

\* ------------------------------------------------------------------- C15
\* The number of messages of the kind ch for the windows low-high of ma.
Messages(ma, low, high, ch) ==
  Cardinality({i \in 1..Len(crossMsgs) :
                 crossMsgs[i] = crossToText(ch, low, high, ma)})

\* The values of the moving average ma in the ranking r.
ValuesOf(r, ma) ==
  IF ma = "SMA" THEN r.sma ELSE r.ema

\* C15: when the 12 and 26 values of both rankings are positive, a ratio
\* 12/26 below 1 before and at or above 1 now gives exactly one golden-cross
\* message for 12-26 of that moving average and no death-cross message for
\* it; the reverse transition gives exactly one death-cross message and no
\* golden-cross message.
C15_OneMessagePerCross ==
  (crossPc = "analysed" /\ lastR.defined) =>
    \A ma \in {"SMA", "EMA"} :
      LET l == ValuesOf(lastR, ma)
          c == ValuesOf(currentR, ma)
      IN (l.twelve > 0 /\ l.twentysix > 0 /\ c.twelve > 0 /\ c.twentysix > 0)
           => /\ (l.twelve < l.twentysix /\ c.twelve >= c.twentysix)
                   => /\ Messages(ma, 12, 26, "golden") = 1
                      /\ Messages(ma, 12, 26, "death") = 0
              /\ (l.twelve >= l.twentysix /\ c.twelve < c.twentysix)
                   => /\ Messages(ma, 12, 26, "death") = 1
                      /\ Messages(ma, 12, 26, "golden") = 0

\* An analysis in which SMA 12 rose from below SMA 26 to exactly SMA 26 and
\* the golden cross of SMA 12-26 was reported next to a death cross of EMA.
C15_Witness ==
  /\ crossPc = "analysed"
  /\ lastR.defined
  /\ lastR.sma.twelve > 0
  /\ lastR.sma.twelve < lastR.sma.twentysix
  /\ currentR.sma.twelve = currentR.sma.twentysix
  /\ Messages("SMA", 12, 26, "golden") = 1
  /\ Messages("EMA", 12, 26, "death") = 1

\* ------------------------------------------------------------------- C16
\* The check k can be made: its four values are set and are no sentinel.
Usable(l, c, k) ==
  /\ Window(l, Checks[k].low) > 0
  /\ Window(l, Checks[k].high) > 0
  /\ Window(c, Checks[k].low) > 0
  /\ Window(c, Checks[k].high) > 0

\* The outcome of check k when it is evaluated.
Outcome(l, c, k) ==
  cross(Window(l, Checks[k].low), Window(l, Checks[k].high),
        Window(c, Checks[k].low), Window(c, Checks[k].high))

\* The messages for check k of ma are those of an evaluated check (ev) or
\* there is none.
Reported(ma, l, c, k, ev) ==
  \A ch \in {"golden", "death"} :
    Messages(ma, Checks[k].low, Checks[k].high, ch) =
      IF ev /\ Outcome(l, c, k) = ch THEN 1 ELSE 0

Needed(k) ==
  {Checks[j].low : j \in 1..k} \cup {Checks[j].high : j \in 1..k}

Passes(r, filter) ==
  /\ filter.close => r.ratio.close > 1
  /\ filter.diff => r.ratio.diff > 1
  /\ filter.volume => r.ratio.volume > 1
  /\ filter.movement => r.movement > 1

\* The products of the rankings in s.
Products(s) ==
  {s[i].productId : i \in 1..Len(s)}

\* The rankings of the list given that pass the filter.
Passing ==
  {i \in 1..Len(unsorted) : Passes(unsorted[i], sortFilter)}

\* C17: sortRankings returns rankings that were given and pass every flag
\* that is set, each once and changed in its rank number only; all of them
\* when the count is not positive, and otherwise the count best rated (all,
\* when fewer pass); in descending order of rating; with the rank numbers
\* 1..n in the order of the list.
C17_FilteredSortedRanked ==
  sortPc = "sorted" =>
    /\ \A i \in 1..Len(sorted) :
         /\ sorted[i].productId \in Passing
         /\ sorted[i] = [unsorted[sorted[i].productId] EXCEPT !.ranking = i]
    /\ \A i, j \in 1..Len(sorted) :
         /\ (i # j) => sorted[i].productId # sorted[j].productId
         /\ (i < j) => sorted[i].ratio.rating >= sorted[j].ratio.rating
    /\ Len(sorted) =
         IF sortFilter.count > 0 /\ sortFilter.count < Cardinality(Passing)
           THEN sortFilter.count ELSE Cardinality(Passing)
    /\ \A k \in Passing \ Products(sorted) : \A i \in 1..Len(sorted) :
         unsorted[k].ratio.rating <= sorted[i].ratio.rating

\* A call in which both rankings pass the flag that is set, the count cuts
\* the list, and the better rated ranking, the second one given, is returned.
C17_Witness ==
  /\ sortPc = "sorted"
  /\ Len(unsorted) = 2
  /\ unsorted[1].ratio.rating < unsorted[2].ratio.rating
  /\ sortFilter.count = 1
  /\ sortFilter.movement
  /\ Cardinality(Passing) = 2
  /\ Len(sorted) = 1
  /\ sorted[1].productId = 2

\* ------------------------------------------------------------------- C18
\* C18: with the overbought flag set no returned ranking has an RSI that is
\* not above the overbought threshold, and with the oversold flag set none
\* has an RSI that is not below the oversold threshold.
C18_RsiFlagsDrop ==
  sortPc = "sorted" =>
    \A i \in 1..Len(sorted) :
      /\ sortFilter.overbought => sorted[i].indicators.rsi > RSI_OVERBOUGHT
      /\ sortFilter.oversold => sorted[i].indicators.rsi < RSI_OVERSOLD

\* ------------------------------------------------------------------- C19
\* C19: sortRankings, called with the list it returned and the same filter,
\* returns that list: the same rankings in the same order with the same rank
\* numbers.
C19_SortIdempotent ==
  sortPc = "resorted" => resorted = sorted

\* A second call on a returned list of two rankings with equal ratings.
C19_Witness ==
  /\ sortPc = "resorted"
  /\ Len(sorted) = 2
  /\ sorted[1].ratio.rating = sorted[2].ratio.rating
  /\ sorted[1].productId = 1
\* ------------------------------------------------------------------- C20
\* The provider calls of pair p whose error was logged in this cycle.
Failed(p, call) ==
  <<p, call>> \in coreErrs

\* The buckets of what CandleDb holds for pair p.
StoredBuckets(p) ==
  createBuckets(dbCandles[p], updEnd)

\* C20: a failure of the provider on a call for one pair (the candle fetch
\* or the order counts) is caught for that call.  The cycle is never
\* abandoned; and once it is over every pair has been processed, a pair
\* whose candle fetch failed has the ranking that its stored candles give
\* (whenever they give buckets at all), and a pair whose order counts failed
\* has a ranking all the same whenever its candles give buckets.
C20_ProviderFailureIsCaught ==
  /\ updPc # "failed"
  /\ updPc = "done" =>
       \A p \in Pairs :
         /\ updI >= p
         /\ (Failed(p, "getCandles") /\ Len(StoredBuckets(p)) > 0) =>
              /\ updRankings[p].defined
              /\ updRankings[p].productId = p
              /\ updRankings[p].dataPoints = sumDataPoints(StoredBuckets(p))
         /\ (Failed(p, "getOrderCount") /\ Len(StoredBuckets(p)) > 0) =>
              /\ updRankings[p].defined
              /\ updRankings[p].movement = 0 - 1

\* A cycle is over in which the candle fetch and the order counts of the
\* first pair failed, that pair has the ranking of its stored candles, and
\* the last pair, whose calls were answered, has a ranking with its movement.
C20_Witness ==
  /\ updPc = "done"
  /\ Failed(1, "getCandles") /\ Failed(1, "getOrderCount")
  /\ updRankings[1].defined
  /\ updRankings[1].dataPoints = sumDataPoints(StoredBuckets(1))
  /\ ~Failed(NumPairs, "getCandles") /\ ~Failed(NumPairs, "getOrderCount")
  /\ updRankings[NumPairs].defined
  /\ updRankings[NumPairs].movement >= 0

Divides60(n) ==
  \E k \in 1..60 : k * n = 60

\* C22: a configuration whose candle interval does not divide 60 or whose
\* bucket size is below 2 is rejected by an exception at construction time:
\* once the constructors have run an exception was thrown, start-up does not
\* get past them, no cycle is scheduled and none runs.
C22_BadConfigFailsStartup ==
  (~Divides60(cfg.mCandleSize) \/ cfg.candlesPer < 2) =>
    /\ cfgPc \notin {"load", "boot"} => cfgThrown # "none"
    /\ cfgPc \notin {"init", "serving"}
    /\ ~cfgScheduled
    /\ cfgCycles = 0

\* Start-up has failed for a bucket size of 1 with a candle interval that
\* divides 60: the State constructor threw and the process has exited.
C22_Witness ==
  /\ Divides60(cfg.mCandleSize)
  /\ cfg.candlesPer = 1
  /\ cfgThrown = "State"
  /\ cfgPc = "exited"
  /\ ~cfgScheduled

\* ------------------------------------------------------------------- C23
\* The k-th value from the end of a list.
FromEnd(list, k) ==
  list[Len(list) - k + 1]

\* C23: the MACD list has the length of the shorter of the two EMA lists and
\* its k-th value from the end is the k-th value from the end of the short
\* EMA minus the k-th value from the end of the long EMA (in the format of
\* the quote), so its last value is the latest short EMA minus the latest
\* long EMA.
C23_MacdAlignsOnSuffix ==
  indPc = "created" =>
    LET short == maSet.ema.twelve
        long == maSet.ema.twentysix
        shorter == IF Len(short) < Len(long) THEN Len(short) ELSE Len(long)
    IN  /\ Len(macds.value) = shorter
        /\ \A k \in 1..shorter :
             FromEnd(macds.value, k) =
               Format(minus(FromEnd(short, k), FromEnd(long, k)), <<quoteDec>>)

\* What calcMACD does instead: the i-th MACD value is the i-th short EMA
\* minus the i-th long EMA, both counted from the start of their lists.
MacdReadsEqualIndices ==
  indPc = "created" =>
    \A i \in 1..Len(macds.value) :
      macds.value[i] =
        Format(minus(maSet.ema.twelve[i], maSet.ema.twentysix[i]), <<quoteDec>>)

\* ------------------------------------------------------------------- C24
MaKeys ==
  {"twelve", "twentysix", "fifty", "twohundred"}

\* The window of a key of MAValues.
RangeOf(key) ==
  CASE key = "twelve" -> Twelve
    [] key = "twentysix" -> TwentySix
    [] key = "fifty" -> Fifty
    [] OTHER -> TwoHundred

\* An optional number holds a number that is not NaN.
IsNumber(value) ==
  value # <<>> /\ value[1] # NaN

\* The moving averages and the MACD value are undefined below their window
\* (the long window for the MACD) and reported from it on.
MovingAveragesFromTheirWindow ==
  indPc = "created" =>
    /\ \A key \in MaKeys :
         /\ Len(indCloses) < RangeOf(key) =>
              indicators.sma[key] = <<>> /\ indicators.ema[key] = <<>>
         /\ Len(indCloses) >= RangeOf(key) =>
              IsNumber(indicators.sma[key]) /\ IsNumber(indicators.ema[key])
    /\ Len(indCloses) < TwentySix => indicators.macd.value = <<>>
    /\ Len(indCloses) >= TwentySix => IsNumber(indicators.macd.value)

\* C24: an indicator whose window is longer than the list of bucket closes
\* is undefined in the ranking (and so not 0), and an indicator whose window
\* is at most as long as the list is reported: the moving averages, the
\* MACD value and the RSI.
C24_AvailableFromItsWindow ==
  /\ MovingAveragesFromTheirWindow
  /\ indPc = "created" =>
       /\ Len(indCloses) < RsiLength => indicators.rsi = <<>>
       /\ Len(indCloses) >= RsiLength => IsNumber(indicators.rsi)

\* ------------------------------------------------------------------- C25
\* The sum of the n closes from index i on, as an integer.
RECURSIVE CloseSum(_, _)
CloseSum(i, n) ==
  IF n = 0 THEN 0 ELSE indCloses[i].n + CloseSum(i + 1, n - 1)

\* C25: sma returns len(closes) - n + 1 values for len(closes) >= n, the
\* i-th being the mean of the n closes from the i-th on, and an empty list
\* otherwise; SMA([1,2,3,4,5], 3) = [2,3,4].
C25_SmaWindows ==
  indPc \in {"sma", "ema"} =>
    /\ Len(indCloses) < maRange => smas = <<>>
    /\ Len(indCloses) >= maRange =>
         /\ Len(smas) = Len(indCloses) - maRange + 1
         /\ \A i \in 1..Len(smas) :
              smas[i].n * maRange = smas[i].d * CloseSum(i, maRange)
    /\ (indCloses = Numbers(<<1, 2, 3, 4, 5>>) /\ maRange = 3) =>
         smas = Numbers(<<2, 3, 4>>)

\* sma has returned [2,3,4] for [1,2,3,4,5] and a window of 3.
C25_Witness ==
  /\ indPc = "sma"
  /\ indCloses = Numbers(<<1, 2, 3, 4, 5>>)
  /\ maRange = 3
  /\ smas = Numbers(<<2, 3, 4>>)

\* ------------------------------------------------------------------- C26
\* Every close of the list is its first close.
ConstantCloses ==
  \A i \in 1..Len(indCloses) : indCloses[i] = indCloses[1]

CallSpans ==
  Reverse(Spans(optsEnd, candlesPer, totalBuckets))

\* The candle buckets of the call, OLDEST to NEWEST, as candleProcessor
\* receives them.
CallBuckets ==
  Reverse(createCandleBuckets(bucketCandles, optsEnd, candlesPer, totalBuckets))

\* The buckets of the call that received no candle, counted from the oldest.
Unfilled ==
  LET cb == CallBuckets IN
  {k \in 1..totalBuckets : Len(cb[k].candles) = 0}

\* The number of given candles that open inside span k: after its start, not
\* after its end.
InsideSpan(k) ==
  Cardinality({i \in 1..Len(bucketCandles) :
                 /\ bucketCandles[i].openTimeInISO > CallSpans[k].start
                 /\ bucketCandles[i].openTimeInISO <= CallSpans[k].end})

\* The returned buckets with the timestamp of span k.
Returned(k) ==
  {j \in 1..Len(bucketData) : bucketData[j].timestampISO = CallSpans[k].end}

\* C27: every candle that opens inside a span is put in the bucket of that
\* span: a returned bucket that is not backfilled has as many dataPoints as
\* candles open inside its span, and a span with such candles has a bucket
\* that is not backfilled.
C27_CandlesLandInTheirSpan ==
  bucketPc = "built" =>
    LET empty == Unfilled IN
    \A k \in 1..totalBuckets :
      /\ InsideSpan(k) > 0 => k \notin empty
      /\ k \notin empty =>
           \A j \in Returned(k) : bucketData[j].dataPoints = InsideSpan(k)

\* ------------------------------------------------------------------- C28
\* j is the nearest bucket before k that is not in the set empty.
NearestEarlier(j, k, empty) ==
  /\ j < k
  /\ j \notin empty
  /\ \A m \in (j + 1)..(k - 1) : m \in empty

\* C28: a bucket that received no candle is returned once, with dataPoints
\* = 1 and the close of the nearest earlier bucket that received a candle,
\* and it is not returned when no earlier bucket received a candle.
C28_BackfillFromNearestEarlier ==
  bucketPc = "built" =>
    LET empty == Unfilled IN
    \A k \in empty :
      /\ (\A j \in 1..(k - 1) : j \in empty) => Returned(k) = {}
      /\ \A j \in 1..(k - 1) :
           NearestEarlier(j, k, empty) =>
             /\ Cardinality(Returned(k)) = 1
             /\ Returned(j) # {}
             /\ \A b \in Returned(k), e \in Returned(j) :
                  /\ bucketData[b].dataPoints = 1
                  /\ bucketData[b].close = bucketData[e].close

\* Three buckets were asked for: the oldest received a candle, the middle
\* one none, the newest a candle with another close; the middle bucket is
\* returned with the close of the oldest, and no bucket before the oldest
\* non-empty one exists to be dropped.
C28_Witness ==
  /\ bucketPc = "built"
  /\ totalBuckets = 3
  /\ Unfilled = {2}
  /\ Len(bucketData) = 3
  /\ bucketData[2].dataPoints = 1
  /\ bucketData[2].close = bucketData[1].close
  /\ bucketData[2].close # bucketData[3].close

\* ------------------------------------------------------------------- C29
\* C29: at most totalBuckets buckets are returned, and the timestamp of each
\* returned bucket is that of the bucket before it plus the length of one
\* bucket: ascending, without a gap, one bucket per interval.
C29_AscendingContiguous ==
  bucketPc = "built" =>
    /\ Len(bucketData) <= totalBuckets
    /\ \A j \in 1..(Len(bucketData) - 1) :
         bucketData[j + 1].timestampISO =
           bucketData[j].timestampISO + candlesPer * CandleSize

\* Three buckets are returned, the middle one for a span without candles.
C29_Witness ==
  /\ bucketPc = "built"
  /\ totalBuckets = 3
  /\ Len(bucketData) = 3
  /\ 2 \in Unfilled
  /\ bucketData[1].timestampISO < bucketData[2].timestampISO
  /\ bucketData[2].timestampISO < bucketData[3].timestampISO

\* ------------------------------------------------------------------- C30
\* C30: when fewer buckets are returned than were asked for, the shortfall
\* was logged.
C30_ShortfallIsLogged ==
  (bucketPc = "built" /\ Len(bucketData) < totalBuckets) => bucketErrs > 0

\* C30 (amended): the buckets before the oldest one that received a candle
\* are left out and all others are returned, and no log entry is written
\* for that: the only log entry of the aggregator is written when candles
\* are given and no bucket is asked for.
C30_ShortfallIsSilent ==
  bucketPc = "built" =>
    /\ LET empty == Unfilled IN
       \A k \in 1..totalBuckets :
         (Returned(k) = {}) <=> (\A j \in 1..k : j \in empty)
    /\ (bucketErrs > 0) <=> (totalBuckets = 0 /\ Len(bucketCandles) > 0)
    /\ bucketErrs <= 1

\* Two buckets were asked for, candles were given, one bucket is returned
\* and nothing was logged.
C30_Witness ==
  /\ bucketPc = "built"
  /\ totalBuckets = 2
  /\ Len(bucketCandles) > 0
  /\ Len(bucketData) = 1
  /\ bucketErrs = 0

\* ------------------------------------------------------------------- C31
\* The old candles followed by the new candles.
AllCandles ==
  oldCandles \o newCandles

\* C31: the merged list is the last Len(candles) candles of the old candles
\* followed by the new ones, so a candle is only left out together with
\* every older one, and the newest candle is never left out.
C31_EvictionIsFifo ==
  candlePc = "merged" =>
    /\ Len(candles) <= Len(AllCandles)
    /\ candles = SubSeq(AllCandles, Len(AllCandles) - Len(candles) + 1,
                        Len(AllCandles))
    /\ Len(AllCandles) > 0 => Len(candles) > 0

\* A merge that left out the oldest stored candle and kept a stored candle
\* and the new one.
C31_Witness ==
  /\ candlePc = "merged"
  /\ Len(oldCandles) = 2
  /\ Len(newCandles) = 1
  /\ candles = <<oldCandles[2], newCandles[1]>>


\* ------------------------------------------------------------------- C32
\* C32: per product, a pass of update that returns a ranking makes the
\* ranking that was the current one the last one and the new ranking the
\* current one, which is also the entry of the product in
\* State.currentRankings; a pass that returns no ranking (no buckets) leaves
\* the two rankings and the entry as they were.
C32_RankingsRotate ==
  [][\A p \in Pairs :
       /\ (updates[p] = "none" /\ updates'[p] = "data") =>
            /\ productData'[p].lastRanking = productData[p].currentRanking
            /\ productData'[p].currentRanking.defined
            /\ currentRankings'[p] = productData'[p].currentRanking
       /\ (updates[p] = "none" /\ updates'[p] = "empty") =>
            /\ productData'[p].lastRanking = productData[p].lastRanking
            /\ productData'[p].currentRanking = productData[p].currentRanking
            /\ currentRankings'[p] = currentRankings[p]]_vars

\* A pass of update has returned a ranking for the first product, whose
\* ranking of before, another one, is now its last one.
C32_Witness ==
  /\ cycPc = "update"
  /\ updates[1] = "data"
  /\ productData[1].lastRanking = Ripe(0)
  /\ productData[1].currentRanking = Ripe(1)
  /\ currentRankings[1] = Ripe(1)

\* ------------------------------------------------------------------- C33
\* C33: every product of the filtered reference data is processed in each
\* pass of updateData, also one that was added to the reference data after
\* initState: when the loop of a pass is over each of them has a
\* ProductData and update was called for it, and one for which update has
\* returned a ranking has that ranking in State.currentRankings.
C33_EveryProductIsProcessed ==
  cycPc = "analysis" =>
    \A p \in refProducts :
      /\ productData[p].exists
      /\ updates[p] # "none"
      /\ updates[p] = "data" => currentRankings[p].defined

\* ------------------------------------------------------------------- C34
\* The list of messages holds the text.
Emits(list, text) ==
  \E i \in 1..Len(list) : list[i] = text

\* C34: when the last MACD value off zero that the analysis has read for a
\* product was negative (positive) and the current value is positive
\* (negative), the analysis of this pass returns the message that the base
\* line was crossed moving up (down), unless an earlier pass has returned it
\* since; values of 0 read in between do not matter.
C34_ZeroLineCrossingIsReported ==
  [][cycPc = "analysis" =>
       \A p \in Pairs :
         LET value == productData[p].currentRanking.macd.value IN
         /\ (macdTrend[p] < 0 /\ Greater(value, <<0>>)) =>
              Emits(analysisRes'[p].macd, BaseUp)
         /\ (macdTrend[p] > 0 /\ Less(value, <<0>>)) =>
              Emits(analysisRes'[p].macd, BaseDown)]_vars

\* ------------------------------------------------------------------- C35
\* The MACD value or the MACD signal of the ranking is undefined (as both
\* are for a ranking that is undefined).
MacdUnavailable(ranking) ==
  ranking.macd.value = <<>> \/ ranking.macd.signal = <<>>

\* C35: after an analysis, a product whose last or current ranking has no
\* MACD value or no MACD signal has no message about the signal line.
C35_NoSignalMessageWithoutMacd ==
  cycPc = "idle" =>
    \A p \in Pairs :
      (\/ MacdUnavailable(productData[p].lastRanking)
       \/ MacdUnavailable(productData[p].currentRanking)) =>
        /\ ~Emits(analysisRes[p].macd, SignalUp)
        /\ ~Emits(analysisRes[p].macd, SignalDown)

\* ------------------------------------------------------------------- C36
\* The RSI of the ranking is within [RSI_OVERSOLD, RSI_OVERBOUGHT].
RsiInRange(ranking) ==
  /\ ranking.rsi # <<>>
  /\ ranking.rsi[1] >= RSI_OVERSOLD
  /\ ranking.rsi[1] <= RSI_OVERBOUGHT

\* C36: after an analysis, a product has the overbought message exactly
\* when the RSI of its last ranking is in range and the RSI of its current
\* ranking is above RSI_OVERBOUGHT, the oversold message exactly when the
\* RSI of its last ranking is in range and the RSI of its current ranking is
\* below RSI_OVERSOLD, whatever value from 0 on it has, and no message
\* otherwise.
C36_RsiMessages ==
  cycPc = "idle" =>
    \A p \in refProducts :
      LET last == productData[p].lastRanking
          now == productData[p].currentRanking.rsi
      IN  /\ Emits(analysisRes[p].rsi, Overbought) <=>
               (RsiInRange(last) /\ Greater(now, <<RSI_OVERBOUGHT>>))
          /\ Emits(analysisRes[p].rsi, Oversold) <=>
               (RsiInRange(last) /\ Less(now, <<RSI_OVERSOLD>>))
          /\ Len(analysisRes[p].rsi) <= 1

\* ------------------------------------------------------------------- C39
\* No message of the list now is a message of the list before.
NoneAgain(before, now) ==
  \A i \in 1..Len(now) : ~Emits(before, now[i])

\* C39: for a product for which update has returned no ranking in a pass,
\* the analysis of that pass returns no message that the analysis of the
\* pass before has returned.
C39_ReportedInOnePassOnly ==
  [][cycPc = "analysis" =>
       \A p \in Pairs :
         updates[p] # "data" =>
           /\ NoneAgain(analysisRes[p].cross, analysisRes'[p].cross)
           /\ NoneAgain(analysisRes[p].macd, analysisRes'[p].macd)
           /\ NoneAgain(analysisRes[p].rsi, analysisRes'[p].rsi)]_vars

\* ------------------------------------------------------------------- C37
\* C37: a call of updateFilter sets each field that the filter given has to
\* the value given and leaves every other field of State.sortFilter as it
\* was; no other call, a pass of updateData among them, changes
\* State.sortFilter.
C37_FilterChangesAsGiven ==
  [][IF stateCall'.op = "updateFilter"
       THEN \A f \in FilterFields :
              sortFilter'[f] = IF stateCall'.filter[f] # <<>>
                                 THEN stateCall'.filter[f][1]
                                 ELSE sortFilter[f]
       ELSE sortFilter' = sortFilter]_vars

\* A pass of updateData is over with rankings in the map, and the filter
\* still has the count and the two flags that calls of updateFilter before
\* it have set, and no other.
C37_Witness ==
  /\ stateCall.op = "updateData"
  /\ Len(unsorted) > 0
  /\ sortFilter = [NoFilter EXCEPT !.count = 1, !.movement = TRUE,
                                   !.oversold = TRUE]

\* ------------------------------------------------------------------- C38
\* C38: a call of getSortedRankings, with or without a filter override,
\* leaves every ranking of State.currentRankings as it was, its rank number
\* included.
C38_GetSortedRankingsOnlyReads ==
  [][stateCall'.op = "getSortedRankings" => unsorted' = unsorted]_vars

\* ------------------------------------------------------------------- C40
\* C40: for every list of buckets that the aggregator returns, the three
\* divisions of makeRanking are by numbers other than 0: the close average,
\* the volume average and the diff average of the last bucket, also when
\* that bucket is backfilled.
C40_DivisorsAreNotZero ==
  (bucketPc = "built" /\ Len(bucketData) > 0) =>
    /\ Ratios(bucketData).close.d # 0
    /\ Ratios(bucketData).volume.d # 0
    /\ Ratios(bucketData).diff.d # 0

\* The part of C40 about the volume average alone.
C40_VolumeDivisor ==
  (bucketPc = "built" /\ Len(bucketData) > 0) =>
    Ratios(bucketData).volume.d # 0

====
